---- MODULE Spec2Model ----
(***************************************************************************)
(* Model of the vpp-sim step engine: battery, EV charger, feeder, the two  *)
(* dispatch controllers and Engine::step / Engine::run.                    *)
(*                                                                         *)
(* f32 quantities are modelled as exact rationals <<num, den>> in lowest   *)
(* terms with den > 0, so rounding error is abstracted away while every    *)
(* min / max / clamp / division of the source is computed as written.      *)
(* Random draws (Gaussian noise, uniform session sampling) are choices     *)
(* from small finite sets.                                                 *)
(*                                                                         *)
(* A local of the source that is used more than once is bound as           *)
(*     CHOOSE out \in { body : x \in {value} } : TRUE                       *)
(* (in an action: \E x \in {value} : body), which is body with x equal to  *)
(* value, the value being computed once as the `let` of the source does.   *)
(*                                                                         *)
(* The specifications share the variables: SpecBattery drives a Battery   *)
(* alone, SpecEv an EvCharger alone, SpecAr1 a SolarPvAr1 alone; Spec is   *)
(* Engine::run and SpecLive the same under weak fairness of its steps;     *)
(* SpecDispatch calls the controllers on free inputs and SpecControl is    *)
(* the union of Spec and SpecDispatch; SpecKpi aggregates step records,    *)
(* SpecConfig validates and builds configurations, SpecApi answers one     *)
(* HTTP request and SpecTui drives the terminal application state.         *)
(***************************************************************************)
EXTENDS Integers, Sequences, FiniteSets, TLC

VARIABLES
    battery,     \* the Battery owned by the engine / driven by the harness
    harness,     \* state of whichever standalone harness the specification drives
    ev,          \* EvCharger state (sampled_day, session)
    feeder,      \* Feeder (net_kw and the two limits)
    controller,  \* the engine's controller (naive, or greedy with its tables)
    sim,         \* engine run position: pc, timestep t, current step locals
    results,     \* Vec<StepResult> pushed by Engine::run
    probe        \* pure dispatch call: input, state and both controllers' outputs

vars == <<battery, harness, ev, feeder, controller, sim, results, probe>>

-----------------------------------------------------------------------------
(* Exact rational arithmetic standing in for f32.                          *)

RECURSIVE GCD(_, _)
GCD(a, b) == IF b = 0 THEN a ELSE GCD(b, a % b)

IAbs(x) == IF x < 0 THEN -x ELSE x

Norm(n, d) ==
    LET s == IF d < 0 THEN -1 ELSE 1
        g == GCD(IAbs(n), IAbs(d))
    IN  <<(s * n) \div g, (s * d) \div g>>

Q(n) == <<n, 1>>
Frac(n, d) == Norm(n, d)

Zero == Q(0)
One == Q(1)

\* every operation cancels common factors before it multiplies, so that the
\* intermediate products stay small
Add(a, b) ==
    CHOOSE r \in { LET g == GCD(x[2], y[2])
                   IN  Norm(x[1] * (y[2] \div g) + y[1] * (x[2] \div g), (x[2] \div g) * y[2])
                   : x \in {a}, y \in {b} } : TRUE
Neg(a) == CHOOSE r \in { <<-x[1], x[2]>> : x \in {a} } : TRUE
Sub(a, b) == Add(a, Neg(b))
Mul(a, b) ==
    CHOOSE r \in { LET g1 == GCD(IAbs(x[1]), y[2])
                       g2 == GCD(IAbs(y[1]), x[2])
                   IN  IF x[1] = 0 \/ y[1] = 0 THEN <<0, 1>>
                       ELSE <<(x[1] \div g1) * (y[1] \div g2), (x[2] \div g2) * (y[2] \div g1)>>
                   : x \in {a}, y \in {b} } : TRUE
\* the source never divides by zero
Div(a, b) == CHOOSE r \in { IF y[1] < 0 THEN Mul(x, <<-y[2], -y[1]>>) ELSE Mul(x, <<y[2], y[1]>>) : x \in {a}, y \in {b} } : TRUE

Lt(a, b) ==
    CHOOSE r \in { LET g == GCD(x[2], y[2])
                   IN  x[1] * (y[2] \div g) < y[1] * (x[2] \div g)
                   : x \in {a}, y \in {b} } : TRUE
Le(a, b) ==
    CHOOSE r \in { LET g == GCD(x[2], y[2])
                   IN  x[1] * (y[2] \div g) <= y[1] * (x[2] \div g)
                   : x \in {a}, y \in {b} } : TRUE
Gt(a, b) == Lt(b, a)
Ge(a, b) == Le(b, a)

fmin(a, b) == CHOOSE r \in { IF Le(x, y) THEN x ELSE y : x \in {a}, y \in {b} } : TRUE
fmax(a, b) == CHOOSE r \in { IF Ge(x, y) THEN x ELSE y : x \in {a}, y \in {b} } : TRUE
fabs(a) == CHOOSE r \in { IF x[1] < 0 THEN Neg(x) ELSE x : x \in {a} } : TRUE
\* f32::clamp(lo, hi); the source only calls it with lo <= hi
clamp(x, lo, hi) == CHOOSE r \in { IF Lt(v, l) THEN l ELSE IF Gt(v, h) THEN h ELSE v : v \in {x}, l \in {lo}, h \in {hi} } : TRUE

\* Option<f32> as a sequence of length 0 or 1
None == <<>>
Some(x) == <<x>>
unwrap_or(o, d) == IF o = None THEN d ELSE o[1]

-----------------------------------------------------------------------------
(* DeviceContext                                                           *)

DeviceContext_new(timestep) == [timestep |-> timestep, setpoint_kw |-> None]

DeviceContext_with_setpoint(timestep, setpoint_kw) ==
    [timestep |-> timestep, setpoint_kw |-> Some(setpoint_kw)]

-----------------------------------------------------------------------------
(* Battery                                                                 *)

\* the assertions of Battery::new
Battery_new_ok(capacity_kwh, soc, max_charge_kw, max_discharge_kw, eta_c, eta_d, steps_per_day) ==
    /\ Gt(capacity_kwh, Zero)
    /\ Le(Zero, soc) /\ Le(soc, One)
    /\ Ge(max_charge_kw, Zero) /\ Ge(max_discharge_kw, Zero)
    /\ Gt(eta_c, Zero) /\ Le(eta_c, One)
    /\ Gt(eta_d, Zero) /\ Le(eta_d, One)
    /\ steps_per_day > 0

Battery_new(capacity_kwh, soc, max_charge_kw, max_discharge_kw, eta_c, eta_d, steps_per_day) ==
    [capacity_kwh |-> capacity_kwh, soc |-> soc,
     max_charge_kw |-> max_charge_kw, max_discharge_kw |-> max_discharge_kw,
     eta_c |-> eta_c, eta_d |-> eta_d, steps_per_day |-> steps_per_day]

Battery_dt_hours(self) == Div(Q(24), Q(self.steps_per_day))

\* A battery that enforces the kW limits only: no stored-energy limit and no
\* final clamp of the state of charge.
Battery_power_kw_rate_only(self, context) ==
    LET setpoint_kw == unwrap_or(context.setpoint_kw, Zero)
    IN  CHOOSE out \in {
            IF Gt(cmd_kw, Zero)
            THEN [actual_kw |-> cmd_kw,
                  soc |-> Sub(self.soc, Div(Mul(cmd_kw, dt_hours),
                                            Mul(self.capacity_kwh, self.eta_d)))]
            ELSE IF Lt(cmd_kw, Zero)
            THEN [actual_kw |-> cmd_kw,
                  soc |-> Add(self.soc, Div(Mul(Mul(Neg(cmd_kw), dt_hours), self.eta_c),
                                            self.capacity_kwh))]
            ELSE [actual_kw |-> Zero, soc |-> self.soc]
            : cmd_kw \in {IF Ge(setpoint_kw, Zero)
                          THEN fmin(setpoint_kw, self.max_discharge_kw)
                          ELSE fmax(setpoint_kw, Neg(self.max_charge_kw))},
              dt_hours \in {Battery_dt_hours(self)} } : TRUE

\* Battery::power_kw: returns the actual power and the updated state of charge.
\* As in the source, a setpoint >= 0 takes the discharge branch and a negative
\* setpoint the charge branch.
Battery_power_kw(self, context) ==
    LET setpoint_kw == unwrap_or(context.setpoint_kw, Zero)
    IN  CHOOSE out \in {
            IF Gt(cmd_kw, Zero)
            THEN CHOOSE discharged \in {
                     LET soc1 == Sub(self.soc, Div(Mul(actual_kw, dt_hours),
                                                   Mul(self.capacity_kwh, self.eta_d)))
                     IN  [actual_kw |-> actual_kw, soc |-> clamp(soc1, Zero, One)]
                     : actual_kw \in {
                         LET max_kwh_this_step ==
                                 Mul(Mul(self.soc, self.capacity_kwh), self.eta_d)
                             max_kw_soc == Div(max_kwh_this_step, dt_hours)
                         IN  fmin(cmd_kw, fmax(max_kw_soc, Zero))} } : TRUE
            ELSE IF Lt(cmd_kw, Zero)
            THEN CHOOSE charged \in {
                     LET actual_kw == Neg(actual_abs_kw)
                         soc1 == Add(self.soc,
                                     Div(Mul(Mul(actual_abs_kw, dt_hours), self.eta_c),
                                         self.capacity_kwh))
                     IN  [actual_kw |-> actual_kw, soc |-> clamp(soc1, Zero, One)]
                     : actual_abs_kw \in {
                         LET cmd_abs == Neg(cmd_kw)
                             max_kwh_this_step ==
                                 Div(Mul(Sub(One, self.soc), self.capacity_kwh), self.eta_c)
                             max_kw_soc == Div(max_kwh_this_step, dt_hours)
                         IN  fmin(cmd_abs, fmax(max_kw_soc, Zero))} } : TRUE
            ELSE [actual_kw |-> Zero, soc |-> self.soc]
            : cmd_kw \in {IF Ge(setpoint_kw, Zero)
                          THEN fmin(setpoint_kw, self.max_discharge_kw)
                          ELSE fmax(setpoint_kw, Neg(self.max_charge_kw))},
              dt_hours \in {Battery_dt_hours(self)} } : TRUE

-----------------------------------------------------------------------------
(* Daylight envelope                                                       *)

\* cos(2*pi*x) for the x in [0, 1) whose cosine is rational
cos_2pi(x) ==
    CASE x = Zero -> One
      [] x = Frac(1, 2) -> Q(-1)
      [] x \in {Frac(1, 4), Frac(3, 4)} -> Zero
      [] x \in {Frac(1, 3), Frac(2, 3)} -> Frac(-1, 2)
      [] x \in {Frac(1, 6), Frac(5, 6)} -> Frac(1, 2)

daylight_frac(t, steps_per_day, sunrise_idx, sunset_idx) ==
    LET day_t == t % steps_per_day
    IN  IF day_t < sunrise_idx \/ day_t >= sunset_idx
        THEN Zero
        ELSE LET span == Q(sunset_idx - sunrise_idx)
                 x == Div(Q(day_t - sunrise_idx), span)
             IN  Mul(Frac(1, 2), Sub(One, cos_2pi(x)))

-----------------------------------------------------------------------------
(* Shared dispatch helpers                                                 *)

\* a demand response that curtails baseload before it touches the flexible load
apply_demand_response_kw_baseload_first(baseload_kw, flexible_load_kw, requested_reduction_kw) ==
    CHOOSE out \in {
        CHOOSE after_base \in {
            CHOOSE after_flex \in {
                <<Sub(base, base_shed), Sub(flexible, flex_shed), Add(flex_shed, base_shed)>>
                : flex_shed \in {fmin(flexible, Sub(remaining_reduction, base_shed))} } : TRUE
            : base_shed \in {fmin(base, remaining_reduction)} } : TRUE
        : remaining_reduction \in {fmax(requested_reduction_kw, Zero)},
          flexible \in {fmax(flexible_load_kw, Zero)},
          base \in {fmax(baseload_kw, Zero)} } : TRUE

\* returns <<baseload_after_kw, flexible_after_kw, achieved_reduction_kw>>
apply_demand_response_kw(baseload_kw, flexible_load_kw, requested_reduction_kw) ==
    CHOOSE out \in {
        CHOOSE after_flex \in {
            CHOOSE after_base \in {
                LET flexible_after == Sub(flexible, flex_shed)
                    baseload_after == Sub(base, base_shed)
                    achieved == Add(flex_shed, base_shed)
                IN  <<baseload_after, flexible_after, achieved>>
                : base_shed \in {fmin(base, Sub(remaining_reduction, flex_shed))} } : TRUE
            : flex_shed \in {fmin(flexible, remaining_reduction)} } : TRUE
        : remaining_reduction \in {fmax(requested_reduction_kw, Zero)},
          flexible \in {fmax(flexible_load_kw, Zero)},
          base \in {fmax(baseload_kw, Zero)} } : TRUE

\* a cap that does not count on the battery's discharge
capped_flexible_load_kw_without_battery(net_fixed_kw, requested_flexible_kw, max_import_kw, battery_max_discharge_kw) ==
    CHOOSE out \in {
        fmax(Sub(requested, fmax(Sub(Add(net_fixed_kw, requested), max_import_kw), Zero)), Zero)
        : requested \in {fmax(requested_flexible_kw, Zero)} } : TRUE

capped_flexible_load_kw(net_fixed_kw, requested_flexible_kw, max_import_kw, battery_max_discharge_kw) ==
    CHOOSE out \in {
        LET overload_kw ==
                fmax(Sub(Sub(Add(net_fixed_kw, requested), battery_max_discharge_kw),
                         max_import_kw), Zero)
        IN  fmax(Sub(requested, overload_kw), Zero)
        : requested \in {fmax(requested_flexible_kw, Zero)} } : TRUE

\* a window whose upper bound takes the larger of the battery and feeder limits
battery_feasibility_window_widest(net_without_battery_kw, max_import_kw, max_export_kw, battery_max_charge_kw, battery_max_discharge_kw) ==
    LET min_feeder_kw == Neg(max_export_kw)
        max_feeder_kw == max_import_kw
        low == fmax(Neg(battery_max_discharge_kw), Sub(min_feeder_kw, net_without_battery_kw))
        high == fmax(battery_max_charge_kw, Sub(max_feeder_kw, net_without_battery_kw))
    IN  <<low, high>>

\* returns <<low_kw, high_kw>>
battery_feasibility_window(net_without_battery_kw, max_import_kw, max_export_kw, battery_max_charge_kw, battery_max_discharge_kw) ==
    LET min_feeder_kw == Neg(max_export_kw)
        max_feeder_kw == max_import_kw
        low == fmax(Neg(battery_max_discharge_kw), Sub(min_feeder_kw, net_without_battery_kw))
        high == fmin(battery_max_charge_kw, Sub(max_feeder_kw, net_without_battery_kw))
    IN  <<low, high>>

\* a setpoint that tracks the target without projecting onto the window
constrained_battery_setpoint_kw_unprojected(net_without_battery_kw, target_kw, max_import_kw, max_export_kw, battery_max_charge_kw, battery_max_discharge_kw) ==
    LET constrained_target_kw == clamp(target_kw, Neg(max_export_kw), max_import_kw)
        desired_kw == Sub(constrained_target_kw, net_without_battery_kw)
    IN  desired_kw

\* a setpoint that leaves the battery idle when no feasible point exists
constrained_battery_setpoint_kw_idle_when_infeasible(net_without_battery_kw, target_kw, max_import_kw, max_export_kw, battery_max_charge_kw, battery_max_discharge_kw) ==
    LET min_feeder_kw == Neg(max_export_kw)
        max_feeder_kw == max_import_kw
    IN  CHOOSE out \in {
            IF Le(low_kw, high_kw) THEN clamp(desired_kw, low_kw, high_kw) ELSE Zero
            : low_kw \in {fmax(Neg(battery_max_discharge_kw),
                               Sub(min_feeder_kw, net_without_battery_kw))},
              high_kw \in {fmin(battery_max_charge_kw,
                                Sub(max_feeder_kw, net_without_battery_kw))},
              desired_kw \in {Sub(clamp(target_kw, min_feeder_kw, max_feeder_kw),
                                  net_without_battery_kw)} } : TRUE

constrained_battery_setpoint_kw(net_without_battery_kw, target_kw, max_import_kw, max_export_kw, battery_max_charge_kw, battery_max_discharge_kw) ==
    LET min_feeder_kw == Neg(max_export_kw)
        max_feeder_kw == max_import_kw
    IN  CHOOSE out \in {
            IF Le(low_kw, high_kw)
            THEN clamp(desired_kw, low_kw, high_kw)
            ELSE clamp(desired_kw, Neg(battery_max_discharge_kw), battery_max_charge_kw)
            : low_kw \in {fmax(Neg(battery_max_discharge_kw),
                               Sub(min_feeder_kw, net_without_battery_kw))},
              high_kw \in {fmin(battery_max_charge_kw,
                                Sub(max_feeder_kw, net_without_battery_kw))},
              desired_kw \in {LET constrained_target_kw ==
                                      clamp(target_kw, min_feeder_kw, max_feeder_kw)
                              IN  Sub(constrained_target_kw, net_without_battery_kw)} } : TRUE

-----------------------------------------------------------------------------
(* NaiveRtController                                                       *)

\* a naive dispatch that lets the EV charge at whatever demand response left
NaiveRtController_dispatch_uncapped_ev(input, state) ==
    CHOOSE out \in {
        CHOOSE with_net_fixed \in {
            CHOOSE with_ev_cap \in {
                LET net_without_battery_kw == Add(net_fixed_kw, ev_cap_kw)
                    battery_setpoint_kw ==
                        constrained_battery_setpoint_kw(net_without_battery_kw,
                            input.target_kw, state.max_import_kw, state.max_export_kw,
                            state.battery_max_charge_kw, state.battery_max_discharge_kw)
                IN  [base_demand_kw |-> dr[1], ev_after_dr_kw |-> dr[2],
                     ev_cap_kw |-> ev_cap_kw, battery_setpoint_kw |-> battery_setpoint_kw,
                     dr_achieved_kw |-> dr[3]]
                : ev_cap_kw \in {dr[2]} } : TRUE
            : net_fixed_kw \in {Add(dr[1], input.solar_kw)} } : TRUE
        : dr \in {apply_demand_response_kw(input.base_demand_raw_kw,
                                           input.ev_requested_kw,
                                           input.dr_requested_kw)} } : TRUE

NaiveRtController_dispatch(input, state) ==
    CHOOSE out \in {
        CHOOSE with_net_fixed \in {
            CHOOSE with_ev_cap \in {
                LET net_without_battery_kw == Add(net_fixed_kw, ev_cap_kw)
                    battery_setpoint_kw ==
                        constrained_battery_setpoint_kw(net_without_battery_kw,
                            input.target_kw, state.max_import_kw, state.max_export_kw,
                            state.battery_max_charge_kw, state.battery_max_discharge_kw)
                IN  [base_demand_kw |-> dr[1], ev_after_dr_kw |-> dr[2],
                     ev_cap_kw |-> ev_cap_kw, battery_setpoint_kw |-> battery_setpoint_kw,
                     dr_achieved_kw |-> dr[3]]
                : ev_cap_kw \in {capped_flexible_load_kw(net_fixed_kw, dr[2],
                                     state.max_import_kw, state.battery_max_discharge_kw)} }
                : TRUE
            : net_fixed_kw \in {Add(dr[1], input.solar_kw)} } : TRUE
        : dr \in {apply_demand_response_kw(input.base_demand_raw_kw,
                                           input.ev_requested_kw,
                                           input.dr_requested_kw)} } : TRUE

-----------------------------------------------------------------------------
(* GreedyController                                                        *)

estimate_solar_kw(t, steps_per_day, sunrise, sunset, kw_peak) ==
    Mul(Neg(kw_peak), daylight_frac(t, steps_per_day, sunrise, sunset))

\* a controller whose tables hold no future demand
GreedyController_new_no_lookahead(forecast, target, capacity_kwh, max_charge_kw, max_discharge_kw, eta_c, eta_d, dt_hours, solar_kw_peak, sunrise_idx, sunset_idx) ==
    [kind |-> "greedy",
     steps_per_day |-> Cardinality(DOMAIN forecast), capacity_kwh |-> capacity_kwh,
     dt_hours |-> dt_hours, eta_c |-> eta_c, eta_d |-> eta_d,
     remaining_charge_kwh |-> [t \in 0 .. Cardinality(DOMAIN forecast) |-> Zero],
     remaining_discharge_kwh |-> [t \in 0 .. Cardinality(DOMAIN forecast) |-> Zero]]

\* forecast and target are functions over 0 .. len-1 (Rust slices)
GreedyController_new(forecast, target, capacity_kwh, max_charge_kw, max_discharge_kw, eta_c, eta_d, dt_hours, solar_kw_peak, sunrise_idx, sunset_idx) ==
    LET steps_per_day == Cardinality(DOMAIN forecast)
    IN  CHOOSE out \in {
            LET remaining_charge_kwh[t \in 0 .. steps_per_day] ==
                    IF t = steps_per_day THEN Zero
                    ELSE IF Gt(residual[t], Zero)
                         THEN LET charge_kw == fmin(residual[t], max_charge_kw)
                              IN  Add(remaining_charge_kwh[t + 1],
                                      Mul(Mul(charge_kw, dt_hours), eta_c))
                         ELSE remaining_charge_kwh[t + 1]
                remaining_discharge_kwh[t \in 0 .. steps_per_day] ==
                    IF t = steps_per_day THEN Zero
                    ELSE IF Lt(residual[t], Zero)
                         THEN LET discharge_kw == fmin(Neg(residual[t]), max_discharge_kw)
                              IN  Add(remaining_discharge_kwh[t + 1],
                                      Div(Mul(discharge_kw, dt_hours), eta_d))
                         ELSE remaining_discharge_kwh[t + 1]
            IN  [kind |-> "greedy",
                 steps_per_day |-> steps_per_day, capacity_kwh |-> capacity_kwh,
                 dt_hours |-> dt_hours, eta_c |-> eta_c, eta_d |-> eta_d,
                 remaining_charge_kwh |-> remaining_charge_kwh,
                 remaining_discharge_kwh |-> remaining_discharge_kwh]
            : residual \in {[t \in 0 .. (steps_per_day - 1) |->
                LET solar_est == estimate_solar_kw(t, steps_per_day, sunrise_idx,
                                                   sunset_idx, solar_kw_peak)
                    net_est == Add(forecast[t], solar_est)
                IN  Sub(target[t], net_est)]} } : TRUE

\* a greedy dispatch that looks no further than the current step
GreedyController_dispatch_current_step_only(self, input, state) ==
    LET t_mod == input.timestep % self.steps_per_day
        next == t_mod + 1
        idx == IF next <= self.steps_per_day THEN next ELSE self.steps_per_day
    IN
    CHOOSE out \in {
      CHOOSE with_net_fixed \in {
        CHOOSE with_ev_cap \in {
          CHOOSE with_net \in {
            CHOOSE with_tracking \in {
              CHOOSE with_desired \in {
                  LET battery_setpoint_kw ==
                          IF Le(window[1], window[2])
                          THEN clamp(desired_kw, window[1], window[2])
                          ELSE clamp(desired_kw, Neg(state.battery_max_discharge_kw),
                                     state.battery_max_charge_kw)
                  IN  [base_demand_kw |-> dr[1], ev_after_dr_kw |-> dr[2],
                       ev_cap_kw |-> ev_cap_kw,
                       battery_setpoint_kw |-> battery_setpoint_kw,
                       dr_achieved_kw |-> dr[3]]
                  : desired_kw \in {
                      IF Gt(tracking_kw, Zero)
                      THEN CHOOSE throttled \in {
                               IF Gt(total_demand, available_room) /\ Gt(total_demand, Zero)
                               THEN Mul(tracking_kw, Div(available_room, total_demand))
                               ELSE tracking_kw
                               : total_demand \in {
                                   LET current_energy ==
                                           Mul(Mul(tracking_kw, self.dt_hours), self.eta_c)
                                       future_energy == Zero
                                   IN  Add(current_energy, future_energy)},
                                 available_room \in {
                                   Mul(Sub(One, state.battery_soc), self.capacity_kwh)} }
                               : TRUE
                      ELSE IF Lt(tracking_kw, Zero)
                      THEN CHOOSE throttled \in {
                               IF Gt(total_demand, available_energy) /\ Gt(total_demand, Zero)
                               THEN Mul(tracking_kw, Div(available_energy, total_demand))
                               ELSE tracking_kw
                               : total_demand \in {
                                   LET current_energy ==
                                           Div(Mul(Neg(tracking_kw), self.dt_hours),
                                               self.eta_d)
                                       future_energy == Zero
                                   IN  Add(current_energy, future_energy)},
                                 available_energy \in {
                                   Mul(state.battery_soc, self.capacity_kwh)} }
                               : TRUE
                      ELSE Zero} } : TRUE
              : tracking_kw \in {
                  LET min_feeder_kw == Neg(state.max_export_kw)
                      max_feeder_kw == state.max_import_kw
                      constrained_target ==
                          clamp(input.target_kw, min_feeder_kw, max_feeder_kw)
                  IN  Sub(constrained_target, net_without_battery_kw)},
                window \in {
                  battery_feasibility_window(net_without_battery_kw, state.max_import_kw,
                      state.max_export_kw, state.battery_max_charge_kw,
                      state.battery_max_discharge_kw)} } : TRUE
            : net_without_battery_kw \in {Add(net_fixed_kw, ev_cap_kw)} } : TRUE
          : ev_cap_kw \in {capped_flexible_load_kw(net_fixed_kw, dr[2],
                               state.max_import_kw, state.battery_max_discharge_kw)} } : TRUE
        : net_fixed_kw \in {Add(dr[1], input.solar_kw)} } : TRUE
      : dr \in {apply_demand_response_kw(input.base_demand_raw_kw, input.ev_requested_kw,
                                         input.dr_requested_kw)} } : TRUE

GreedyController_dispatch(self, input, state) ==
    LET t_mod == input.timestep % self.steps_per_day
        next == t_mod + 1
        idx == IF next <= self.steps_per_day THEN next ELSE self.steps_per_day
    IN
    CHOOSE out \in {
      CHOOSE with_net_fixed \in {
        CHOOSE with_ev_cap \in {
          CHOOSE with_net \in {
            CHOOSE with_tracking \in {
              CHOOSE with_desired \in {
                  LET battery_setpoint_kw ==
                          IF Le(window[1], window[2])
                          THEN clamp(desired_kw, window[1], window[2])
                          ELSE clamp(desired_kw, Neg(state.battery_max_discharge_kw),
                                     state.battery_max_charge_kw)
                  IN  [base_demand_kw |-> dr[1], ev_after_dr_kw |-> dr[2],
                       ev_cap_kw |-> ev_cap_kw,
                       battery_setpoint_kw |-> battery_setpoint_kw,
                       dr_achieved_kw |-> dr[3]]
                  : desired_kw \in {
                      IF Gt(tracking_kw, Zero)
                      THEN CHOOSE throttled \in {
                               IF Gt(total_demand, available_room) /\ Gt(total_demand, Zero)
                               THEN Mul(tracking_kw, Div(available_room, total_demand))
                               ELSE tracking_kw
                               : total_demand \in {
                                   LET current_energy ==
                                           Mul(Mul(tracking_kw, self.dt_hours), self.eta_c)
                                       future_energy == self.remaining_charge_kwh[idx]
                                   IN  Add(current_energy, future_energy)},
                                 available_room \in {
                                   Mul(Sub(One, state.battery_soc), self.capacity_kwh)} }
                               : TRUE
                      ELSE IF Lt(tracking_kw, Zero)
                      THEN CHOOSE throttled \in {
                               IF Gt(total_demand, available_energy) /\ Gt(total_demand, Zero)
                               THEN Mul(tracking_kw, Div(available_energy, total_demand))
                               ELSE tracking_kw
                               : total_demand \in {
                                   LET current_energy ==
                                           Div(Mul(Neg(tracking_kw), self.dt_hours),
                                               self.eta_d)
                                       future_energy == self.remaining_discharge_kwh[idx]
                                   IN  Add(current_energy, future_energy)},
                                 available_energy \in {
                                   Mul(state.battery_soc, self.capacity_kwh)} }
                               : TRUE
                      ELSE Zero} } : TRUE
              : tracking_kw \in {
                  LET min_feeder_kw == Neg(state.max_export_kw)
                      max_feeder_kw == state.max_import_kw
                      constrained_target ==
                          clamp(input.target_kw, min_feeder_kw, max_feeder_kw)
                  IN  Sub(constrained_target, net_without_battery_kw)},
                window \in {
                  battery_feasibility_window(net_without_battery_kw, state.max_import_kw,
                      state.max_export_kw, state.battery_max_charge_kw,
                      state.battery_max_discharge_kw)} } : TRUE
            : net_without_battery_kw \in {Add(net_fixed_kw, ev_cap_kw)} } : TRUE
          : ev_cap_kw \in {capped_flexible_load_kw(net_fixed_kw, dr[2],
                               state.max_import_kw, state.battery_max_discharge_kw)} } : TRUE
        : net_fixed_kw \in {Add(dr[1], input.solar_kw)} } : TRUE
      : dr \in {apply_demand_response_kw(input.base_demand_raw_kw, input.ev_requested_kw,
                                         input.dr_requested_kw)} } : TRUE

NaiveRtController_new == [kind |-> "naive"]

\* Controller::dispatch, resolved on the controller's type
Controller_dispatch(self, input, state) ==
    IF self.kind = "greedy"
    THEN GreedyController_dispatch(self, input, state)
    ELSE NaiveRtController_dispatch(input, state)

-----------------------------------------------------------------------------
(* SimConfig, schedule, demand-response event                              *)

SimConfig_new(steps_per_day, days) ==
    [steps_per_day |-> steps_per_day, days |-> days,
     dt_hours |-> Div(Q(24), Q(steps_per_day))]

\* a step count that forgets the number of days
total_steps_of_one_day(self) == self.steps_per_day

total_steps(self) == self.steps_per_day * self.days

RECURSIVE SumTo(_, _)
\* sum of f[0] .. f[n-1]
SumTo(f, n) == IF n = 0 THEN Zero ELSE Add(SumTo(f, n - 1), f[n - 1])

flat_target(forecast) ==
    LET len == Cardinality(DOMAIN forecast)
    IN  IF len = 0 THEN forecast
        ELSE LET avg == Div(SumTo(forecast, len), Q(len))
             IN  [i \in DOMAIN forecast |-> avg]

DemandResponseEvent_new(start_step, end_step, requested_reduction_kw) ==
    [start_step |-> start_step, end_step |-> end_step,
     requested_reduction_kw |-> requested_reduction_kw]

is_active(self, timestep) == timestep >= self.start_step /\ timestep < self.end_step

requested_reduction_at_kw(self, timestep) ==
    IF is_active(self, timestep) THEN self.requested_reduction_kw ELSE Zero

-----------------------------------------------------------------------------
(* BaseLoad and SolarPv. The Gaussian noise of both devices is a draw: for *)
(* the baseload the draw is the noisy value before the floor at zero, for  *)
(* the PV it is the noise added to the multiplier 1.                       *)

BaseLoad_power_kw(kw) == fmax(kw, Zero)

SolarPv_new(kw_peak, steps_per_day, sunrise_idx, sunset_idx) ==
    [kw_peak |-> fmax(kw_peak, Zero), steps_per_day |-> steps_per_day,
     sunrise_idx |-> sunrise_idx, sunset_idx |-> sunset_idx]

\* gaussian_noise is called on daylight steps only
SolarPvDraws(self, context, draws) ==
    IF Le(daylight_frac(context.timestep, self.steps_per_day,
                        self.sunrise_idx, self.sunset_idx), Zero)
    THEN {Zero}
    ELSE draws

SolarPv_power_kw(self, context, noise) ==
    CHOOSE out \in {
        IF Le(frac, Zero) THEN Zero
        ELSE LET noise_mult == Add(One, noise)
                 kw == Mul(Mul(self.kw_peak, frac), noise_mult)
             IN  fmax(kw, Zero)
        : frac \in {daylight_frac(context.timestep, self.steps_per_day,
                                  self.sunrise_idx, self.sunset_idx)} } : TRUE

-----------------------------------------------------------------------------
(* EvCharger                                                               *)

EvCharger_new(max_charge_kw, demand_kwh_min, demand_kwh_max, dwell_steps_min, dwell_steps_max, config) ==
    [max_charge_kw |-> max_charge_kw,
     steps_per_day |-> config.steps_per_day, dt_hours |-> config.dt_hours,
     demand_kwh_min |-> demand_kwh_min, demand_kwh_max |-> demand_kwh_max,
     dwell_steps_min |-> dwell_steps_min, dwell_steps_max |-> dwell_steps_max,
     sampled_day |-> None, session |-> None]

IMin(a, b) == IF a <= b THEN a ELSE b

\* draws whose arrival ignores the dwell already drawn
SessionDraws_any_arrival(self) ==
    LET dwell_max == IMin(self.dwell_steps_max, self.steps_per_day)
        dwell_min == IMin(self.dwell_steps_min, dwell_max)
    IN  UNION { { [dwell |-> dwell, arrival |-> arrival, raw_demand |-> raw]
                  : arrival \in 0 .. (self.steps_per_day - 1),
                    raw \in {self.demand_kwh_min, self.demand_kwh_max} }
                : dwell \in dwell_min .. dwell_max }

\* the three uniform draws of sample_session_for_day, in the order drawn
SessionDraws(self) ==
    LET dwell_max == IMin(self.dwell_steps_max, self.steps_per_day)
        dwell_min == IMin(self.dwell_steps_min, dwell_max)
    IN  UNION { { [dwell |-> dwell, arrival |-> arrival, raw_demand |-> raw]
                  : arrival \in 0 .. (self.steps_per_day - dwell),
                    raw \in {self.demand_kwh_min, self.demand_kwh_max} }
                : dwell \in dwell_min .. dwell_max }

\* the generator is consulted only by a call that samples a session
NoDraw == [dwell |-> 0, arrival |-> 0, raw_demand |-> Zero]
EvDraws(self, context) ==
    IF self.sampled_day # Some(context.timestep \div self.steps_per_day)
    THEN SessionDraws(self)
    ELSE {NoDraw}

sample_session_for_day(self, day, draw) ==
    LET dwell == draw.dwell
        arrival == draw.arrival
        deadline == arrival + dwell
        max_deliverable_kwh == Mul(Mul(self.max_charge_kw, self.dt_hours), Q(dwell))
        demand_kwh == fmax(fmin(draw.raw_demand, max_deliverable_kwh), Zero)
    IN  [self EXCEPT !.sampled_day = Some(day),
                     !.session = Some([arrival_step |-> arrival,
                                       deadline_step |-> deadline,
                                       remaining_kwh |-> demand_kwh])]

\* a request that spreads the remaining energy over the whole dwell at every step
EvCharger_requested_power_kw_over_dwell(self, context, draw) ==
    LET day == context.timestep \div self.steps_per_day
        day_t == context.timestep % self.steps_per_day
    IN  CHOOSE out \in {
            LET kw == IF self1.session = None THEN Zero
                      ELSE LET session == self1.session[1]
                           IN  IF day_t < session.arrival_step
                                  \/ day_t >= session.deadline_step
                               THEN Zero
                               ELSE IF Le(session.remaining_kwh, Zero) THEN Zero
                               ELSE fmax(Div(session.remaining_kwh,
                                             Mul(Q(session.deadline_step
                                                   - session.arrival_step),
                                                 self.dt_hours)),
                                         Zero)
            IN  [self |-> self1, kw |-> kw]
            : self1 \in {IF self.sampled_day # Some(day)
                         THEN sample_session_for_day(self, day, draw)
                         ELSE self} } : TRUE

\* a request that samples a session at every call
EvCharger_requested_power_kw_resampling(self, context, draw) ==
    LET day == context.timestep \div self.steps_per_day
        day_t == context.timestep % self.steps_per_day
    IN  CHOOSE out \in {
            LET kw == IF self1.session = None THEN Zero
                      ELSE LET session == self1.session[1]
                           IN  IF day_t < session.arrival_step
                                  \/ day_t >= session.deadline_step
                               THEN Zero
                               ELSE IF Le(session.remaining_kwh, Zero) THEN Zero
                               ELSE LET remaining_steps == session.deadline_step - day_t
                                    IN  IF remaining_steps = 0 THEN Zero
                                        ELSE fmax(Div(session.remaining_kwh,
                                                      Mul(Q(remaining_steps),
                                                          self.dt_hours)),
                                                  Zero)
            IN  [self |-> self1, kw |-> kw]
            : self1 \in {sample_session_for_day(self, day, draw)} } : TRUE

\* returns the charger after the call and the requested power
EvCharger_requested_power_kw(self, context, draw) ==
    LET day == context.timestep \div self.steps_per_day
        day_t == context.timestep % self.steps_per_day
    IN  CHOOSE out \in {
            LET kw == IF self1.session = None THEN Zero
                      ELSE LET session == self1.session[1]
                           IN  IF day_t < session.arrival_step
                                  \/ day_t >= session.deadline_step
                               THEN Zero
                               ELSE IF Le(session.remaining_kwh, Zero) THEN Zero
                               ELSE LET remaining_steps == session.deadline_step - day_t
                                    IN  IF remaining_steps = 0 THEN Zero
                                        ELSE fmax(Div(session.remaining_kwh,
                                                      Mul(Q(remaining_steps),
                                                          self.dt_hours)),
                                                  Zero)
            IN  [self |-> self1, kw |-> kw]
            : self1 \in {IF self.sampled_day # Some(day)
                         THEN sample_session_for_day(self, day, draw)
                         ELSE self} } : TRUE

\* a charger that serves its request without looking at the setpoint
EvCharger_power_kw_ignoring_setpoint(self, context, draw) ==
    CHOOSE out \in {
        IF Le(req.kw, Zero) THEN [self |-> req.self, kw |-> Zero]
        ELSE IF req.self.session = None THEN [self |-> req.self, kw |-> Zero]
        ELSE CHOOSE charged \in {
                 LET session == req.self.session[1]
                     delivered_kwh == Mul(charge_kw, req.self.dt_hours)
                     remaining == fmax(Sub(session.remaining_kwh, delivered_kwh), Zero)
                 IN  [self |-> [req.self EXCEPT !.session =
                                   Some([session EXCEPT !.remaining_kwh = remaining])],
                      kw |-> charge_kw]
                 : charge_kw \in {fmax(fmin(req.kw, req.self.max_charge_kw), Zero)} } : TRUE
        : req \in {EvCharger_requested_power_kw(self, context, draw)} } : TRUE

\* returns the charger after the call and the actual charging power
EvCharger_power_kw(self, context, draw) ==
    CHOOSE out \in {
        IF Le(req.kw, Zero) THEN [self |-> req.self, kw |-> Zero]
        ELSE IF req.self.session = None THEN [self |-> req.self, kw |-> Zero]
        ELSE CHOOSE charged \in {
                 LET session == req.self.session[1]
                     delivered_kwh == Mul(charge_kw, req.self.dt_hours)
                     remaining == fmax(Sub(session.remaining_kwh, delivered_kwh), Zero)
                 IN  [self |-> [req.self EXCEPT !.session =
                                   Some([session EXCEPT !.remaining_kwh = remaining])],
                      kw |-> charge_kw]
                 : charge_kw \in {
                     LET cap_kw == fmax(unwrap_or(context.setpoint_kw,
                                                  req.self.max_charge_kw), Zero)
                     IN  fmax(fmin(fmin(req.kw, cap_kw), req.self.max_charge_kw),
                              Zero)} } : TRUE
        : req \in {EvCharger_requested_power_kw(self, context, draw)} } : TRUE

-----------------------------------------------------------------------------
(* Feeder and power balance                                                *)

Feeder_with_limits(max_import_kw, max_export_kw) ==
    [net_kw |-> Zero, max_import_kw |-> max_import_kw, max_export_kw |-> max_export_kw]

\* a reset that leaves the accumulated net load in place
Feeder_reset_keeping_net(self) == self

Feeder_reset(self) == [self EXCEPT !.net_kw = Zero]
Feeder_add_net_kw(self, kw) == [self EXCEPT !.net_kw = Add(@, kw)]
min_net_kw(self) == Neg(self.max_export_kw)
max_net_kw(self) == self.max_import_kw
within_limits(self) == Ge(self.net_kw, min_net_kw(self)) /\ Le(self.net_kw, max_net_kw(self))

\* a balance that subtracts the battery flow
feeder_net_kw_battery_negated(base_kw, ev_kw, solar_kw, battery_kw) ==
    Sub(Add(Add(base_kw, ev_kw), solar_kw), battery_kw)

feeder_net_kw(base_kw, ev_kw, solar_kw, battery_kw) ==
    Add(Add(Add(base_kw, ev_kw), solar_kw), battery_kw)

\* Engine::step 7: the tracking error of a step
tracking_error_kw(feeder_kw, target_kw) == Sub(feeder_kw, target_kw)

-----------------------------------------------------------------------------
(* Standalone battery harness: a validly constructed Battery driven by an  *)
(* arbitrary sequence of setpoints, accumulating actual_kw * dt_hours as   *)
(* the energy-conservation test does.                                      *)

MaxCalls == 3

HarnessCapacities == {Q(10)}
HarnessSocs == {Zero, Frac(1, 10), Frac(1, 2), Frac(9, 10), One}
HarnessRates == {<<Q(5), Q(5)>>, <<Q(2), Q(5)>>, <<Q(5), Q(2)>>}
HarnessEtas == {<<One, One>>, <<Frac(9, 10), Frac(4, 5)>>}
HarnessStepsPerDay == {4, 24, 96}
HarnessSetpoints == {Q(-10), Q(-5), Q(-2), Zero, Q(2), Q(5), Q(10)}

Idle == [pc |-> "idle"]
NoProbe == [mode |-> "none"]
NoResults == [len |-> 0, last |-> None]

InitBattery ==
    /\ \E cap \in HarnessCapacities, soc0 \in HarnessSocs, r \in HarnessRates,
          e \in HarnessEtas, spd \in HarnessStepsPerDay :
          /\ Battery_new_ok(cap, soc0, r[1], r[2], e[1], e[2], spd)
          /\ battery = Battery_new(cap, soc0, r[1], r[2], e[1], e[2], spd)
          /\ harness = [calls |-> 0, initial_soc |-> soc0, total_energy_in |-> Zero,
                        setpoint_kw |-> Zero, actual_kw |-> Zero, soc_before |-> soc0]
    /\ ev = Idle /\ feeder = Idle /\ controller = Idle /\ sim = Idle
    /\ results = NoResults
    /\ probe = NoProbe

\* one `battery.power_kw(&DeviceContext::with_setpoint(0, setpoint))` call
HarnessCall(setpoint_kw) ==
    /\ harness.calls < MaxCalls
    /\ \E out \in {Battery_power_kw(battery, DeviceContext_with_setpoint(0, setpoint_kw))} :
           /\ battery' = [battery EXCEPT !.soc = out.soc]
           /\ harness' = [harness EXCEPT
                 !.calls = @ + 1,
                 !.total_energy_in = Add(@, Mul(out.actual_kw, Battery_dt_hours(battery))),
                 !.setpoint_kw = setpoint_kw,
                 !.actual_kw = out.actual_kw,
                 !.soc_before = battery.soc]
    /\ UNCHANGED <<ev, feeder, controller, sim, results, probe>>

NextBattery == \E sp \in HarnessSetpoints : HarnessCall(sp)

SpecBattery == InitBattery /\ [][NextBattery]_vars

-----------------------------------------------------------------------------
(* Engine: one scenario per initial state, then Engine::run.               *)

Days == 2

config == SimConfig_new(3, Days)
pv == SolarPv_new(Q(4), config.steps_per_day, 1, config.steps_per_day)
load_forecast == [i \in 0 .. (config.steps_per_day - 1) |-> IF i = 0 THEN Q(6) ELSE Q(2)]
target_schedule == flat_target(load_forecast)
dr_event == DemandResponseEvent_new(1, 2, Q(3))

BaseLoadDraws == {Q(-1), Q(12)}
SolarNoiseDraws == {Zero, Q(-2)}

LosslessBattery ==
    Battery_new(Q(40), Frac(1, 2), Q(4), Q(3), One, One, config.steps_per_day)
LossyBattery ==
    Battery_new(Q(80), Frac(1, 10), Q(2), Q(5), Frac(9, 10), Frac(4, 5),
                config.steps_per_day)

GreedyFor(b) ==
    GreedyController_new(load_forecast, target_schedule, b.capacity_kwh,
                         b.max_charge_kw, b.max_discharge_kw, b.eta_c, b.eta_d,
                         config.dt_hours, pv.kw_peak, pv.sunrise_idx, pv.sunset_idx)

\* <<battery, controller>> of each engine built
EngineScenarios ==
    {<<LosslessBattery, NaiveRtController_new>>,
     <<LosslessBattery, GreedyFor(LosslessBattery)>>,
     <<LossyBattery, NaiveRtController_new>>}

NoStep == [called |-> FALSE]

\* locals of Engine::step at its start
StepStart(t) ==
    [pc |-> "read", t |-> t, input |-> NoStep, state |-> NoStep, dispatch |-> NoStep,
     ev_actual_kw |-> None, battery_actual_kw |-> None]

InitEngine ==
    /\ \E sc \in EngineScenarios : battery = sc[1] /\ controller = sc[2]
    /\ ev = EvCharger_new(Q(7), Q(16), Q(80), 1, 2, config)
    /\ feeder = Feeder_with_limits(Q(5), Q(4))
    /\ sim = StepStart(0)
    /\ results = NoResults
    /\ harness = Idle
    /\ probe = NoProbe

\* the statement order of Engine::step with the battery applied before the EV
next_pc_battery_first(pc) ==
    CASE pc = "read" -> "dispatch"
      [] pc = "dispatch" -> "apply_battery"
      [] pc = "apply_battery" -> "apply_ev"
      [] pc = "apply_ev" -> "balance"

\* the statement order of Engine::step
next_pc(pc) ==
    CASE pc = "read" -> "dispatch"
      [] pc = "dispatch" -> "apply_ev"
      [] pc = "apply_ev" -> "apply_battery"
      [] pc = "apply_battery" -> "balance"

\* 1-2. read the devices and build the controller's input and state
EngineRead ==
    /\ sim.pc = "read"
    /\ sim.t < total_steps(config)
    /\ \E kw \in BaseLoadDraws,
          noise \in SolarPvDraws(pv, DeviceContext_new(sim.t), SolarNoiseDraws),
          draw \in EvDraws(ev, DeviceContext_new(sim.t)) :
        \E req \in {EvCharger_requested_power_kw(ev, DeviceContext_new(sim.t), draw)} :
        LET t == sim.t
            context == DeviceContext_new(t)
            spd == config.steps_per_day
            base_demand_raw_kw == BaseLoad_power_kw(kw)
            solar_kw == SolarPv_power_kw(pv, context, noise)
            input == [timestep |-> t,
                      forecast_kw |-> load_forecast[t % spd],
                      target_kw |-> target_schedule[t % spd],
                      dr_requested_kw |-> requested_reduction_at_kw(dr_event, t),
                      base_demand_raw_kw |-> base_demand_raw_kw,
                      solar_kw |-> solar_kw,
                      ev_requested_kw |-> req.kw]
            state == [battery_soc |-> battery.soc,
                      battery_max_charge_kw |-> battery.max_charge_kw,
                      battery_max_discharge_kw |-> battery.max_discharge_kw,
                      max_import_kw |-> feeder.max_import_kw,
                      max_export_kw |-> feeder.max_export_kw]
        IN  /\ ev' = req.self
            /\ sim' = [sim EXCEPT !.pc = next_pc("read"), !.input = input, !.state = state]
    /\ UNCHANGED <<battery, harness, feeder, controller, results, probe>>

\* 3. controller dispatch
EngineDispatch ==
    /\ sim.pc = "dispatch"
    /\ sim' = [sim EXCEPT !.pc = next_pc("dispatch"),
                          !.dispatch = Controller_dispatch(controller, sim.input, sim.state)]
    /\ UNCHANGED <<battery, harness, ev, feeder, controller, results, probe>>

\* 4a. apply the EV cap
EngineApplyEv ==
    /\ sim.pc = "apply_ev"
    /\ \E draw \in EvDraws(ev, DeviceContext_new(sim.t)) :
        \E out \in {EvCharger_power_kw(ev,
                        DeviceContext_with_setpoint(sim.t, sim.dispatch.ev_cap_kw), draw)} :
            /\ ev' = out.self
            /\ sim' = [sim EXCEPT !.pc = next_pc("apply_ev"), !.ev_actual_kw = Some(out.kw)]
    /\ UNCHANGED <<battery, harness, feeder, controller, results, probe>>

\* 4b. apply the battery setpoint
EngineApplyBattery ==
    /\ sim.pc = "apply_battery"
    /\ \E out \in {Battery_power_kw(battery,
                       DeviceContext_with_setpoint(sim.t,
                                                   sim.dispatch.battery_setpoint_kw))} :
           /\ battery' = [battery EXCEPT !.soc = out.soc]
           /\ sim' = [sim EXCEPT !.pc = next_pc("apply_battery"),
                                 !.battery_actual_kw = Some(out.actual_kw)]
    /\ UNCHANGED <<harness, ev, feeder, controller, results, probe>>

\* 5-7. feeder balance, limit check, StepResult; Engine::run pushes it and
\* goes on to the next timestep
EngineBalance ==
    /\ sim.pc = "balance"
    /\ \E feeder_kw \in {feeder_net_kw(sim.dispatch.base_demand_kw, sim.ev_actual_kw[1],
                                       sim.input.solar_kw, sim.battery_actual_kw[1])} :
       \E feeder1 \in {Feeder_add_net_kw(Feeder_reset(feeder), feeder_kw)} :
       LET t == sim.t
           dispatch == sim.dispatch
           within_feeder_limits == within_limits(feeder1)
           result ==
               [timestep |-> t,
                time_hr |-> Mul(Q(t), config.dt_hours),
                base_kw_raw |-> sim.input.base_demand_raw_kw,
                base_kw_after_dr |-> dispatch.base_demand_kw,
                solar_kw |-> sim.input.solar_kw,
                ev_requested_kw |-> sim.input.ev_requested_kw,
                ev_after_dr_kw |-> dispatch.ev_after_dr_kw,
                ev_cap_kw |-> dispatch.ev_cap_kw,
                ev_actual_kw |-> sim.ev_actual_kw[1],
                battery_setpoint_kw |-> dispatch.battery_setpoint_kw,
                battery_actual_kw |-> sim.battery_actual_kw[1],
                battery_soc |-> battery.soc,
                feeder_kw |-> feeder_kw,
                target_kw |-> sim.input.target_kw,
                tracking_error_kw |-> tracking_error_kw(feeder_kw, sim.input.target_kw),
                dr_requested_kw |-> sim.input.dr_requested_kw,
                dr_achieved_kw |-> dispatch.dr_achieved_kw,
                within_feeder_limits |-> within_feeder_limits]
       IN  /\ feeder' = feeder1
           /\ results' = [len |-> results.len + 1, last |-> Some(result)]
           /\ sim' = IF t + 1 < total_steps(config)
                     THEN StepStart(t + 1)
                     ELSE [StepStart(t + 1) EXCEPT !.pc = "done"]
    /\ UNCHANGED <<battery, harness, ev, controller, probe>>

Next ==
    \/ EngineRead
    \/ EngineDispatch
    \/ EngineApplyEv
    \/ EngineApplyBattery
    \/ EngineBalance

Spec == InitEngine /\ [][Next]_vars

\* Engine::run is one sequential loop on one thread: a step that can be taken
\* is taken
SpecLive == Spec /\ WF_vars(Next)

-----------------------------------------------------------------------------
(* Pure dispatch calls: one StepInput and StepState per initial state, as  *)
(* make_input / make_state of the controller tests build them, handed to   *)
(* either controller.                                                      *)

ProbeBaseKw == {Zero, Q(1), Q(3), Q(6), Q(10)}
ProbeSolarKw == {Zero, Q(-4), Q(-12)}
ProbeEvKw == {Zero, Q(4)}
ProbeDrKw == {Zero, Q(4)}
ProbeTargetKw == {Q(-5), Q(1), Frac(5, 2), Q(8)}
ProbeTimesteps == {0, 2, 5}
ProbeSocs == {Frac(1, 2), Frac(9, 10)}
ProbeBatteryLimits == {<<Q(4), Q(3)>>, <<Q(5), Q(5)>>}
ProbeFeederLimits == {<<Q(5), Q(4)>>, <<Q(5), Q(2)>>, <<Q(10), Q(10)>>}

make_input(timestep, base_raw, solar, ev_req, dr_req, target) ==
    [timestep |-> timestep, forecast_kw |-> target, target_kw |-> target,
     dr_requested_kw |-> dr_req, base_demand_raw_kw |-> base_raw,
     solar_kw |-> solar, ev_requested_kw |-> ev_req]

make_state(soc, max_charge, max_discharge, max_import, max_export) ==
    [battery_soc |-> soc, battery_max_charge_kw |-> max_charge,
     battery_max_discharge_kw |-> max_discharge,
     max_import_kw |-> max_import, max_export_kw |-> max_export]

InitDispatch ==
    /\ \E t \in ProbeTimesteps, base \in ProbeBaseKw, solar \in ProbeSolarKw,
          evr \in ProbeEvKw, dr \in ProbeDrKw, target \in ProbeTargetKw,
          soc \in ProbeSocs, bl \in ProbeBatteryLimits, fl \in ProbeFeederLimits :
          probe = [mode |-> "ready",
                   input |-> make_input(t, base, solar, evr, dr, target),
                   state |-> make_state(soc, bl[1], bl[2], fl[1], fl[2]),
                   dispatch |-> NoStep]
    /\ controller = GreedyFor(LossyBattery)
    /\ battery = Idle /\ harness = Idle /\ ev = Idle /\ feeder = Idle /\ sim = Idle
    /\ results = NoResults

ProbeNaive ==
    /\ probe.mode = "ready"
    /\ probe' = [probe EXCEPT !.mode = "naive",
                    !.dispatch = NaiveRtController_dispatch(probe.input, probe.state)]
    /\ UNCHANGED <<battery, harness, ev, feeder, controller, sim, results>>

ProbeGreedy ==
    /\ probe.mode = "ready"
    /\ probe' = [probe EXCEPT !.mode = "greedy",
                    !.dispatch = GreedyController_dispatch(controller, probe.input,
                                                           probe.state)]
    /\ UNCHANGED <<battery, harness, ev, feeder, controller, sim, results>>

NextDispatch == ProbeNaive \/ ProbeGreedy

SpecDispatch == InitDispatch /\ [][NextDispatch]_vars

\* engine runs and pure dispatch calls side by side
SpecControl == (InitEngine \/ InitDispatch) /\ [][Next \/ NextDispatch]_vars

-----------------------------------------------------------------------------
(* EV charger driven directly, one power_kw call per step as in the tests   *)
(* of ev_charger.rs, with or without the engine's requested_power_kw call   *)
(* before it.                                                               *)

EvDays == 2

\* constructor arguments <<max_charge_kw, demand_kwh_min, demand_kwh_max,
\* dwell_steps_min, dwell_steps_max>>, dwell bounds beyond the day included
EvChargerInputs ==
    {<<Q(7), Q(16), Q(80), 1, 2>>, <<Q(7), Zero, Zero, 2, 2>>,
     <<Q(7), Q(10), Q(10), 2, 5>>, <<Q(7), Q(10), Q(200), 4, 6>>}

EvCharger_new_ok(max_charge_kw, demand_kwh_min, demand_kwh_max, dwell_steps_min, dwell_steps_max) ==
    /\ Gt(max_charge_kw, Zero)
    /\ Ge(demand_kwh_min, Zero)
    /\ Ge(demand_kwh_max, demand_kwh_min)
    /\ dwell_steps_min > 0
    /\ dwell_steps_max >= dwell_steps_min

cfg == SimConfig_new(3, EvDays)

\* what the caller passes as setpoint: none, or a cap
EvSetpoints == {None, Some(Q(-1)), Some(Zero), Some(Q(3)), Some(Q(20))}

DeviceContext_at(t, setpoint_kw) == [timestep |-> t, setpoint_kw |-> setpoint_kw]

InitEv ==
    /\ \E a \in EvChargerInputs :
          /\ EvCharger_new_ok(a[1], a[2], a[3], a[4], a[5])
          /\ ev = EvCharger_new(a[1], a[2], a[3], a[4], a[5], cfg)
    /\ harness = [pc |-> "ev", t |-> 0, requested_kw |-> None, actual_kw |-> None,
                  demand_kwh |-> Zero, total_kwh |-> Zero, cap_bound |-> FALSE]
    /\ battery = Idle /\ feeder = Idle /\ controller = Idle /\ sim = Idle
    /\ results = NoResults
    /\ probe = NoProbe

\* the call samples a session
EvSamples(context) == ev.sampled_day # Some(context.timestep \div ev.steps_per_day)

\* the bookkeeping of the caller across a call that may sample: the energy
\* the new session asks for, the energy delivered to it, whether a cap bound
EvBooks(context, draw) ==
    IF EvSamples(context)
    THEN [harness EXCEPT
            !.demand_kwh = sample_session_for_day(ev, context.timestep \div ev.steps_per_day,
                                                  draw).session[1].remaining_kwh,
            !.total_kwh = Zero,
            !.cap_bound = FALSE]
    ELSE harness

\* `ev.requested_power_kw(&DeviceContext::new(t))`
EvRequest ==
    /\ harness.pc = "ev"
    /\ harness.t < total_steps(cfg)
    /\ harness.requested_kw = None
    /\ \E draw \in EvDraws(ev, DeviceContext_at(harness.t, None)) :
       \E out \in {EvCharger_requested_power_kw(ev, DeviceContext_at(harness.t, None), draw)} :
           /\ ev' = out.self
           /\ harness' = [EvBooks(DeviceContext_at(harness.t, None), draw) EXCEPT
                             !.requested_kw = Some(out.kw)]
    /\ UNCHANGED <<battery, feeder, controller, sim, results, probe>>

\* `total_kwh += ev.power_kw(&context) * dt_hours`, then the next step
EvPower(setpoint_kw) ==
    /\ harness.pc = "ev"
    /\ harness.t < total_steps(cfg)
    /\ \E draw \in EvDraws(ev, DeviceContext_at(harness.t, setpoint_kw)) :
       \E req \in {EvCharger_requested_power_kw(ev, DeviceContext_at(harness.t, setpoint_kw), draw)},
          out \in {EvCharger_power_kw(ev, DeviceContext_at(harness.t, setpoint_kw), draw)},
          books \in {EvBooks(DeviceContext_at(harness.t, setpoint_kw), draw)} :
           /\ ev' = out.self
           /\ harness' = [books EXCEPT
                 !.t = @ + 1,
                 !.requested_kw = None,
                 !.actual_kw = Some(out.kw),
                 !.total_kwh = Add(@, Mul(out.kw, ev.dt_hours)),
                 !.cap_bound = @ \/ (setpoint_kw # None
                                     /\ Lt(fmax(setpoint_kw[1], Zero), req.kw))]
    /\ UNCHANGED <<battery, feeder, controller, sim, results, probe>>

NextEv == EvRequest \/ \E sp \in EvSetpoints : EvPower(sp)

SpecEv == InitEv /\ [][NextEv]_vars

-----------------------------------------------------------------------------
(* SolarPvAr1 driven directly, one power_kw call per step                   *)

MULTIPLIER_MIN == Frac(1, 5)
MULTIPLIER_MAX == Frac(6, 5)

SolarPvAr1_new_ok(sunrise_idx, sunset_idx, conf) ==
    sunrise_idx < sunset_idx /\ sunset_idx <= conf.steps_per_day

SolarPvAr1_new(kw_peak, sunrise_idx, sunset_idx, alpha, cloud_noise_std, conf) ==
    [kw_peak |-> fmax(kw_peak, Zero), steps_per_day |-> conf.steps_per_day,
     sunrise_idx |-> sunrise_idx, sunset_idx |-> sunset_idx,
     alpha |-> clamp(alpha, Zero, One),
     cloud_noise_std |-> fmax(cloud_noise_std, Zero),
     multiplier |-> One]

\* standard normal values the Box-Muller transform may produce
GaussianDraws == {Q(-6), Zero, Q(1), Q(6)}

\* gaussian_noise(rng, std_dev): 0 without a draw when std_dev <= 0
gaussian_noise(std_dev, z0) == IF Le(std_dev, Zero) THEN Zero ELSE Mul(z0, std_dev)

\* returns the device after the step; the new multiplier is its field
advance_multiplier(self, z0) ==
    [self EXCEPT !.multiplier =
        clamp(Add(Mul(self.alpha, self.multiplier),
                  Mul(Sub(One, self.alpha), gaussian_noise(self.cloud_noise_std, z0))),
              MULTIPLIER_MIN, MULTIPLIER_MAX)]

\* a model that lets the clouds evolve on daylight steps only
SolarPvAr1_power_kw_daylight_only(self, context, z0) ==
    CHOOSE out \in {
        IF Le(frac, Zero) THEN [self |-> self, kw |-> Zero]
        ELSE CHOOSE advanced \in {
                 [self |-> self1,
                  kw |-> Neg(fmax(Mul(Mul(self1.kw_peak, frac), self1.multiplier), Zero))]
                 : self1 \in {advance_multiplier(self, z0)} } : TRUE
        : frac \in {daylight_frac(context.timestep, self.steps_per_day,
                                  self.sunrise_idx, self.sunset_idx)} } : TRUE

\* returns the device after the call and the power
SolarPvAr1_power_kw(self, context, z0) ==
    CHOOSE out \in {
        IF Le(frac, Zero) THEN [self |-> self1, kw |-> Zero]
        ELSE [self |-> self1,
              kw |-> Neg(fmax(Mul(Mul(self1.kw_peak, frac), self1.multiplier), Zero))]
        : self1 \in {advance_multiplier(self, z0)},
          frac \in {daylight_frac(context.timestep, self.steps_per_day,
                                  self.sunrise_idx, self.sunset_idx)} } : TRUE

\* constructor arguments <<kw_peak, sunrise_idx, sunset_idx, alpha, cloud_noise_std>>
SolarPvAr1Inputs ==
    {<<Q(5), 1, 3, Frac(3, 4), Frac(1, 2)>>, <<Q(5), 0, 3, Frac(1, 2), Frac(1, 2)>>,
     <<Q(5), 0, 2, Frac(3, 2), Frac(1, 2)>>, <<Q(5), 1, 3, Q(-1), Frac(1, 5)>>,
     <<Q(5), 1, 2, Frac(1, 2), Zero>>}

InitAr1 ==
    /\ \E a \in SolarPvAr1Inputs :
          /\ SolarPvAr1_new_ok(a[2], a[3], cfg)
          /\ harness = [pc |-> "ar1", pv |-> SolarPvAr1_new(a[1], a[2], a[3], a[4], a[5], cfg),
                        t |-> 0, kw |-> None, z0 |-> None, before |-> None]
    /\ ev = Idle /\ battery = Idle /\ feeder = Idle /\ controller = Idle /\ sim = Idle
    /\ results = NoResults
    /\ probe = NoProbe

\* `pv.power_kw(&ctx(t))` for the next t of the loop
Ar1Power ==
    /\ harness.pc = "ar1"
    /\ harness.t < total_steps(cfg)
    /\ \E z0 \in GaussianDraws :
       \E out \in {SolarPvAr1_power_kw(harness.pv, DeviceContext_new(harness.t), z0)} :
           harness' = [harness EXCEPT !.pv = out.self, !.t = @ + 1, !.kw = Some(out.kw),
                                      !.z0 = Some(z0), !.before = Some(harness.pv.multiplier)]
    /\ UNCHANGED <<battery, ev, feeder, controller, sim, results, probe>>

NextAr1 == Ar1Power

SpecAr1 == InitAr1 /\ [][NextAr1]_vars

-----------------------------------------------------------------------------
(* KPI aggregation: a vector of step records with free feeder and target   *)
(* values, the tracking error and imbalance cost of each computed as the   *)
(* engine step computes them, then KpiReport::from_results over the vector *)

MaxResults == 3

\* Engine::step 8: settlement cost of a step
imbalance_cost(error_kw, dt_hours, imbalance_price_per_kwh) == Mul(Mul(fabs(error_kw), dt_hours), imbalance_price_per_kwh)

KpiZero == [sq_sum |-> Zero, abs_sum |-> Zero, dr_requested_sum |-> Zero, dr_achieved_sum |-> Zero, peak_import |-> Zero, peak_export |-> Zero, bat_throughput |-> Zero, violations |-> 0, imbalance_cost_sum |-> Zero]

\* the accumulators of from_results after the first n records
RECURSIVE KpiFold(_, _, _)
KpiFold(rs, dt_hours, n) ==
    IF n = 0 THEN KpiZero
    ELSE CHOOSE acc \in
        { [sq_sum |-> Add(a.sq_sum, Mul(r.tracking_error_kw, r.tracking_error_kw)),
           abs_sum |-> Add(a.abs_sum, fabs(r.tracking_error_kw)),
           dr_requested_sum |-> Add(a.dr_requested_sum, r.dr_requested_kw),
           dr_achieved_sum |-> Add(a.dr_achieved_sum, r.dr_achieved_kw),
           peak_import |-> fmax(a.peak_import, r.feeder_kw),
           peak_export |-> fmax(a.peak_export, Neg(r.feeder_kw)),
           bat_throughput |-> Add(a.bat_throughput, Mul(fabs(r.battery_actual_kw), dt_hours)),
           violations |-> IF r.within_feeder_limits THEN a.violations ELSE a.violations + 1,
           imbalance_cost_sum |-> Add(a.imbalance_cost_sum, r.imbalance_cost)]
          : a \in {KpiFold(rs, dt_hours, n - 1)}, r \in {rs[n]} } : TRUE

\* a report whose cost is the mean of the per-step costs
KpiReport_from_results_mean_cost(rs, dt_hours, battery_capacity_kwh) ==
    [total_imbalance_cost |->
        IF rs = <<>> THEN Zero
        ELSE Div(KpiFold(rs, dt_hours, Len(rs)).imbalance_cost_sum, Q(Len(rs)))]

\* rmse_tracking_kw is kept squared: the report holds sq_sum / n
KpiReport_from_results(rs, dt_hours, battery_capacity_kwh) ==
    IF rs = <<>>
    THEN [rmse_tracking_kw_sq |-> Zero, mae_tracking_kw |-> Zero, curtailment_pct |-> Zero,
          peak_import_kw |-> Zero, peak_export_kw |-> Zero, battery_throughput_kwh |-> Zero,
          battery_equivalent_full_cycles |-> Zero, feeder_violation_count |-> 0,
          total_imbalance_cost |-> Zero]
    ELSE CHOOSE report \in
        { [rmse_tracking_kw_sq |-> Div(a.sq_sum, n),
           mae_tracking_kw |-> Div(a.abs_sum, n),
           curtailment_pct |-> IF Gt(a.dr_requested_sum, Zero)
                               THEN Div(Mul(Q(100), a.dr_achieved_sum), a.dr_requested_sum)
                               ELSE Zero,
           peak_import_kw |-> a.peak_import,
           peak_export_kw |-> a.peak_export,
           battery_throughput_kwh |-> a.bat_throughput,
           battery_equivalent_full_cycles |->
               IF Gt(battery_capacity_kwh, Zero)
               THEN Div(a.bat_throughput, Mul(Q(2), battery_capacity_kwh))
               ELSE Zero,
           feeder_violation_count |-> a.violations,
           total_imbalance_cost |-> a.imbalance_cost_sum]
          : a \in {KpiFold(rs, dt_hours, Len(rs))}, n \in {Q(Len(rs))} } : TRUE

KpiFeederDraws == {Q(-6), Frac(1, 2), Q(5)}
KpiTargetDraws == {Zero, Q(2)}
KpiPrices == {Zero, Frac(1, 4)}

InitKpi ==
    /\ \E price \in KpiPrices :
          harness = [pc |-> "kpi", imbalance_price_per_kwh |-> price, results |-> <<>>,
                     report |-> None]
    /\ battery = LosslessBattery
    /\ feeder = Feeder_with_limits(Q(5), Q(4))
    /\ ev = EvCharger_new(Q(7), Q(16), Q(80), 1, 2, config)
    /\ controller = NaiveRtController_new
    /\ sim = StepStart(0)
    /\ results = NoResults
    /\ probe = NoProbe

\* steps 5-9 of Engine::step on a free feeder load and target
KpiStep ==
    /\ harness.pc = "kpi"
    /\ harness.report = None
    /\ Len(harness.results) < MaxResults
    /\ \E feeder_kw \in KpiFeederDraws, target_kw \in KpiTargetDraws :
       \E feeder1 \in {Feeder_add_net_kw(Feeder_reset(feeder), feeder_kw)},
          err \in {tracking_error_kw(feeder_kw, target_kw)} :
          /\ feeder' = feeder1
          /\ harness' = [harness EXCEPT !.results = Append(@,
                 [timestep |-> Len(harness.results),
                  battery_actual_kw |-> Q(-2),
                  feeder_kw |-> feeder_kw,
                  target_kw |-> target_kw,
                  tracking_error_kw |-> err,
                  imbalance_cost |-> imbalance_cost(err, config.dt_hours,
                                                    harness.imbalance_price_per_kwh),
                  dr_requested_kw |-> Q(3),
                  dr_achieved_kw |-> Q(1),
                  within_feeder_limits |-> within_limits(feeder1)])]
    /\ UNCHANGED <<battery, ev, controller, sim, results, probe>>

KpiReport ==
    /\ harness.pc = "kpi"
    /\ harness.report = None
    /\ harness' = [harness EXCEPT !.report =
           Some(KpiReport_from_results(harness.results, config.dt_hours,
                                       battery.capacity_kwh))]
    /\ UNCHANGED <<battery, ev, feeder, controller, sim, results, probe>>

NextKpi ==
    \/ KpiStep
    \/ KpiReport

SpecKpi == InitKpi /\ [][NextKpi]_vars

-----------------------------------------------------------------------------
(* ScenarioConfig: validate, then the construction of the devices from a   *)
(* configuration validate accepted.                                        *)

SimConfig_new_ok(steps_per_day, days) == steps_per_day > 0 /\ days > 0

SolarPv_new_ok(steps_per_day, sunrise_idx, sunset_idx) ==
    /\ steps_per_day > 0
    /\ sunrise_idx < sunset_idx /\ sunset_idx <= steps_per_day

Feeder_with_limits_ok(max_import_kw, max_export_kw) ==
    Ge(max_import_kw, Zero) /\ Ge(max_export_kw, Zero)

DemandResponseEvent_new_ok(start_step, end_step, requested_reduction_kw) ==
    start_step < end_step /\ Ge(requested_reduction_kw, Zero)

\* the fields of the ConfigErrors pushed, in the order of the checks
ScenarioConfig_validate(self) ==
    (IF self.simulation.steps_per_day = 0 THEN <<"simulation.steps_per_day">> ELSE <<>>)
    \o (IF self.simulation.days = 0 THEN <<"simulation.days">> ELSE <<>>)
    \o (IF self.simulation.controller # "naive" /\ self.simulation.controller # "greedy"
        THEN <<"simulation.controller">> ELSE <<>>)
    \o (IF self.solar.model # "simple" /\ self.solar.model # "ar1"
        THEN <<"solar.model">> ELSE <<>>)
    \o (IF self.solar.sunrise_idx >= self.solar.sunset_idx
        THEN <<"solar.sunrise_idx">> ELSE <<>>)
    \o (IF self.simulation.steps_per_day > 0
           /\ self.solar.sunset_idx > self.simulation.steps_per_day
        THEN <<"solar.sunset_idx">> ELSE <<>>)
    \o (IF Le(self.battery.capacity_kwh, Zero) THEN <<"battery.capacity_kwh">> ELSE <<>>)
    \o (IF ~(Le(Zero, self.battery.initial_soc) /\ Le(self.battery.initial_soc, One))
        THEN <<"battery.initial_soc">> ELSE <<>>)
    \o (IF self.ev.dwell_steps_min > self.ev.dwell_steps_max
        THEN <<"ev.dwell_steps_min">> ELSE <<>>)
    \o (IF self.dr_event.start_step >= self.dr_event.end_step
        THEN <<"dr_event.start_step">> ELSE <<>>)

\* every constructor the runner calls on the fields of the configuration
\* finds its assertions true
ScenarioConfig_build_ok(self) ==
    /\ SimConfig_new_ok(self.simulation.steps_per_day, self.simulation.days)
    /\ IF self.solar.model = "ar1"
       THEN SolarPvAr1_new_ok(self.solar.sunrise_idx, self.solar.sunset_idx, self.simulation)
       ELSE SolarPv_new_ok(self.simulation.steps_per_day, self.solar.sunrise_idx,
                           self.solar.sunset_idx)
    /\ Battery_new_ok(self.battery.capacity_kwh, self.battery.initial_soc,
                      self.battery.max_charge_kw, self.battery.max_discharge_kw,
                      self.battery.eta_charge, self.battery.eta_discharge,
                      self.simulation.steps_per_day)
    /\ EvCharger_new_ok(self.ev.max_charge_kw, self.ev.demand_kwh_min, self.ev.demand_kwh_max,
                        self.ev.dwell_steps_min, self.ev.dwell_steps_max)
    /\ Feeder_with_limits_ok(self.feeder.max_import_kw, self.feeder.max_export_kw)
    /\ DemandResponseEvent_new_ok(self.dr_event.start_step, self.dr_event.end_step,
                                  self.dr_event.requested_reduction_kw)

\* the baseline preset on a day of 3 steps, each checked field also taking
\* values outside its range
ScenarioConfigs ==
    { [simulation |-> [steps_per_day |-> 3, days |-> 1, controller |-> c],
       solar |-> [model |-> m, kw_peak |-> Q(5), sunrise_idx |-> sun[1], sunset_idx |-> sun[2]],
       battery |-> [capacity_kwh |-> cap, initial_soc |-> soc, max_charge_kw |-> Q(5),
                    max_discharge_kw |-> Q(5), eta_charge |-> ec, eta_discharge |-> ed],
       ev |-> [max_charge_kw |-> Q(7), demand_kwh_min |-> Q(4), demand_kwh_max |-> Q(14),
               dwell_steps_min |-> dw[1], dwell_steps_max |-> dw[2]],
       feeder |-> [max_import_kw |-> Q(5), max_export_kw |-> Q(4)],
       dr_event |-> [start_step |-> dr[1], end_step |-> dr[2],
                     requested_reduction_kw |-> Frac(3, 2)]]
      : c \in {"naive", "greedy", "mpc"}, m \in {"simple", "ar1", "clear"},
        sun \in {<<1, 3>>, <<2, 2>>, <<1, 4>>},
        cap \in {Zero, Q(10)}, soc \in {Frac(1, 2), Frac(3, 2)},
        ec \in {Zero, Frac(3, 4), Frac(3, 2)}, ed \in {Frac(3, 4), Q(2)},
        dw \in {<<1, 2>>, <<3, 1>>}, dr \in {<<1, 2>>, <<2, 2>>} }

InitConfig ==
    /\ \E c \in ScenarioConfigs :
          harness = [pc |-> "loaded", scenario |-> c, errors |-> <<>>, panicked |-> FALSE]
    /\ battery = LosslessBattery
    /\ feeder = Feeder_with_limits(Q(5), Q(4))
    /\ ev = EvCharger_new(Q(7), Q(16), Q(80), 1, 2, config)
    /\ controller = NaiveRtController_new
    /\ sim = StepStart(0)
    /\ results = NoResults
    /\ probe = NoProbe

ConfigValidate ==
    /\ harness.pc = "loaded"
    /\ harness' = [harness EXCEPT !.pc = "validated",
                                  !.errors = ScenarioConfig_validate(harness.scenario)]
    /\ UNCHANGED <<battery, ev, feeder, controller, sim, results, probe>>

\* a configuration without errors is handed to the constructors
ConfigBuild ==
    /\ harness.pc = "validated"
    /\ harness.errors = <<>>
    /\ harness' = [harness EXCEPT !.pc = "built",
                                  !.panicked = ~ScenarioConfig_build_ok(harness.scenario)]
    /\ UNCHANGED <<battery, ev, feeder, controller, sim, results, probe>>

NextConfig ==
    \/ ConfigValidate
    \/ ConfigBuild

SpecConfig == InitConfig /\ [][NextConfig]_vars

-----------------------------------------------------------------------------
(* Telemetry HTTP interface: one request line per connection, its target   *)
(* already split into the path and the key=value pairs of the query.       *)

\* str::parse::<usize> on the parameter values sent
parse_usize_param(value) ==
    CASE value = "0" -> Some(0)
      [] value = "1" -> Some(1)
      [] value = "2" -> Some(2)
      [] value = "3" -> Some(3)
      [] OTHER -> None

\* the loop of parse_from_to from pair i on; a value that does not parse ends it
RECURSIVE parse_pairs(_, _, _, _)
parse_pairs(query, i, from, to) ==
    IF i > Len(query) THEN [ok |-> TRUE, from |-> from, to |-> to]
    ELSE IF query[i][1] \in {"from", "to"} /\ parse_usize_param(query[i][2]) = None
         THEN [ok |-> FALSE, from |-> from, to |-> to]
    ELSE IF query[i][1] = "from"
         THEN parse_pairs(query, i + 1, parse_usize_param(query[i][2]), to)
    ELSE IF query[i][1] = "to"
         THEN parse_pairs(query, i + 1, from, parse_usize_param(query[i][2]))
    ELSE parse_pairs(query, i + 1, from, to)

parse_from_to(query) ==
    CHOOSE out \in
        { IF r.ok /\ r.from # None /\ r.to # None /\ r.from[1] > r.to[1]
          THEN [r EXCEPT !.ok = FALSE] ELSE r
          : r \in {parse_pairs(query, 1, None, None)} } : TRUE

\* a filter that leaves out the record at the upper bound
rows_in_range_below_to(telemetry, from, to) ==
    SelectSeq(telemetry, LAMBDA row :
        /\ (from = None \/ row.timestep >= from[1])
        /\ (to = None \/ row.timestep < to[1]))

rows_in_range(telemetry, from, to) ==
    SelectSeq(telemetry, LAMBDA row :
        /\ (from = None \/ row.timestep >= from[1])
        /\ (to = None \/ row.timestep <= to[1]))

handle_connection(method, path, query, telemetry) ==
    IF method # "GET" THEN [status |-> 405, body |-> "error"]
    ELSE IF path = "/state"
         THEN IF telemetry # <<>>
              THEN [status |-> 200, body |-> telemetry[Len(telemetry)]]
              ELSE [status |-> 404, body |-> "error"]
    ELSE IF path = "/telemetry"
         THEN CHOOSE out \in
                { IF ~range.ok THEN [status |-> 400, body |-> "error"]
                  ELSE [status |-> 200, body |-> rows_in_range(telemetry, range.from, range.to)]
                  : range \in {parse_from_to(query)} } : TRUE
    ELSE [status |-> 404, body |-> "error"]

ApiMethods == {"GET", "POST", ""}
ApiPaths == {"/state", "/telemetry", "/metrics"}
ApiPairs == {"from", "to", "limit"} \X {"0", "1", "3", "abc", ""}
ApiQueries == {<<>>} \cup {<<p>> : p \in ApiPairs} \cup {<<p, q>> : p, q \in ApiPairs}
ApiTelemetry == {<<>>, [i \in 1 .. 4 |-> [timestep |-> i - 1]]}

InitApi ==
    /\ \E m \in ApiMethods, p \in ApiPaths, q \in ApiQueries, rows \in ApiTelemetry :
          harness = [pc |-> "request", method |-> m, path |-> p, query |-> q,
                     telemetry |-> rows, response |-> None]
    /\ battery = LosslessBattery
    /\ feeder = Feeder_with_limits(Q(5), Q(4))
    /\ ev = EvCharger_new(Q(7), Q(16), Q(80), 1, 2, config)
    /\ controller = NaiveRtController_new
    /\ sim = StepStart(0)
    /\ results = NoResults
    /\ probe = NoProbe

HandleConnection ==
    /\ harness.pc = "request"
    /\ harness' = [harness EXCEPT !.pc = "answered",
           !.response = Some(handle_connection(harness.method, harness.path, harness.query,
                                               harness.telemetry))]
    /\ UNCHANGED <<battery, ev, feeder, controller, sim, results, probe>>

NextApi == HandleConnection

SpecApi == InitApi /\ [][NextApi]_vars

-----------------------------------------------------------------------------
(* TUI application state: App::new, then key presses and ticks. A history  *)
(* entry is represented by the timestep of its StepResult.                 *)

MAX_HISTORY == 200
SPEED_LEVELS_MS == <<500, 250, 100, 50, 20, 5>>
DEFAULT_SPEED_IDX == 2

\* the simulation section of a preset, or None for an unknown name
ScenarioConfig_from_preset(name) ==
    IF name \in {"baseline", "high_solar", "dr_stress"}
    THEN Some([preset |-> name, steps_per_day |-> 24, days |-> 1])
    ELSE None

ScenarioConfig_baseline == ScenarioConfig_from_preset("baseline")[1]

App_new(preset) ==
    CHOOSE app \in
        { [scenario |-> scenario,
           history |-> <<>>,
           timestep |-> 0,
           total_steps |-> scenario.steps_per_day * scenario.days,
           paused |-> FALSE,
           speed_idx |-> DEFAULT_SPEED_IDX,
           quit |-> FALSE,
           preset_name |-> preset]
          : scenario \in {IF ScenarioConfig_from_preset(preset) = None
                           THEN ScenarioConfig_baseline
                           ELSE ScenarioConfig_from_preset(preset)[1]} } : TRUE

App_tick(self) ==
    IF self.timestep >= self.total_steps THEN self
    ELSE [self EXCEPT
            !.history = Append(IF Len(self.history) >= MAX_HISTORY
                               THEN Tail(self.history) ELSE self.history,
                               self.timestep),
            !.timestep = self.timestep + 1]

toggle_pause(self) == [self EXCEPT !.paused = ~self.paused]

speed_up(self) ==
    IF self.speed_idx + 1 < Len(SPEED_LEVELS_MS)
    THEN [self EXCEPT !.speed_idx = self.speed_idx + 1] ELSE self

speed_down(self) ==
    IF self.speed_idx > 0 THEN [self EXCEPT !.speed_idx = self.speed_idx - 1] ELSE self

switch_preset(self, name) ==
    IF ScenarioConfig_from_preset(name) = None THEN self
    ELSE CHOOSE app \in
        { [self EXCEPT !.total_steps = scenario.steps_per_day * scenario.days,
                       !.scenario = scenario,
                       !.history = <<>>,
                       !.timestep = 0,
                       !.paused = FALSE,
                       !.preset_name = name]
          : scenario \in {ScenarioConfig_from_preset(name)[1]} } : TRUE

restart(self) == switch_preset(self, self.preset_name)

is_finished(self) == self.timestep >= self.total_steps

PresetNames == {"baseline", "high_solar", "dr_stress", "custom"}

InitTui ==
    /\ \E preset \in PresetNames :
          harness = [pc |-> "tui", app |-> App_new(preset), op |-> <<"new", preset>>,
                     before |-> None]
    /\ battery = LosslessBattery
    /\ feeder = Feeder_with_limits(Q(5), Q(4))
    /\ ev = EvCharger_new(Q(7), Q(16), Q(80), 1, 2, config)
    /\ controller = NaiveRtController_new
    /\ sim = StepStart(0)
    /\ results = NoResults
    /\ probe = NoProbe

\* one operation on the App, remembered with the App it was applied to
TuiDo(op, app) ==
    /\ harness' = [harness EXCEPT !.app = app, !.op = op, !.before = Some(harness.app)]
    /\ UNCHANGED <<battery, ev, feeder, controller, sim, results, probe>>

\* event_loop: a tick when not paused and not finished
TuiTick ==
    /\ harness.pc = "tui" /\ ~harness.app.quit
    /\ ~harness.app.paused /\ ~is_finished(harness.app)
    /\ TuiDo(<<"tick", "">>, App_tick(harness.app))

\* handle_key, one action per key
TuiQuit ==
    /\ harness.pc = "tui" /\ ~harness.app.quit
    /\ TuiDo(<<"quit", "">>, [harness.app EXCEPT !.quit = TRUE])

TuiTogglePause ==
    /\ harness.pc = "tui" /\ ~harness.app.quit
    /\ TuiDo(<<"toggle_pause", "">>, toggle_pause(harness.app))

TuiSpeedUp ==
    /\ harness.pc = "tui" /\ ~harness.app.quit
    /\ TuiDo(<<"speed_up", "">>, speed_up(harness.app))

TuiSpeedDown ==
    /\ harness.pc = "tui" /\ ~harness.app.quit
    /\ TuiDo(<<"speed_down", "">>, speed_down(harness.app))

TuiSwitchPreset ==
    /\ harness.pc = "tui" /\ ~harness.app.quit
    /\ \E name \in PresetNames :
          TuiDo(<<"switch_preset", name>>, switch_preset(harness.app, name))

TuiRestart ==
    /\ harness.pc = "tui" /\ ~harness.app.quit
    /\ TuiDo(<<"restart", "">>, restart(harness.app))

NextTui ==
    \/ TuiTick
    \/ TuiQuit
    \/ TuiTogglePause
    \/ TuiSpeedUp
    \/ TuiSpeedDown
    \/ TuiSwitchPreset
    \/ TuiRestart

SpecTui == InitTui /\ [][NextTui]_vars

-----------------------------------------------------------------------------
(* Properties of the battery                                               *)

HarnessCalled == harness.calls > 0

\* C2: battery power is in feeder convention: a positive returned power is a
\* charge (the state of charge does not decrease), a negative returned power is
\* a discharge (it does not increase), and the returned power is negative
\* exactly when the state of charge fell during the call.
C2_FeederConvention ==
    HarnessCalled =>
        /\ Gt(harness.actual_kw, Zero) => Ge(battery.soc, harness.soc_before)
        /\ Lt(harness.actual_kw, Zero) => Le(battery.soc, harness.soc_before)
        /\ Lt(harness.actual_kw, Zero) <=> Lt(battery.soc, harness.soc_before)

\* C3: after any sequence of power_kw calls with arbitrary setpoints the state
\* of charge of a validly constructed battery lies in [0, 1].
C3_SocBounds == Le(Zero, battery.soc) /\ Le(battery.soc, One)

\* a call whose setpoint asked for more energy than the battery held or had
\* room for, so that the state of charge ended on a bound it was not on before
C3_Witness ==
    /\ HarnessCalled
    /\ harness.soc_before # battery.soc
    /\ battery.soc \in {Zero, One}
    /\ harness.actual_kw # harness.setpoint_kw

\* C4: with both efficiencies 1, soc_final - soc_initial equals the sum of
\* actual_kw * dt_hours over the calls, divided by the capacity.
C4_EnergyConservation ==
    (battery.eta_c = One /\ battery.eta_d = One) =>
        Sub(battery.soc, harness.initial_soc)
            = Div(harness.total_energy_in, battery.capacity_kwh)

\* C5: for every setpoint, -max_discharge_kw <= actual_kw <= +max_charge_kw,
\* also when the two limits differ.
C5_BatteryRate ==
    HarnessCalled =>
        /\ Le(Neg(battery.max_discharge_kw), harness.actual_kw)
        /\ Le(harness.actual_kw, battery.max_charge_kw)

\* C6: the actual power is limited by stored energy with the efficiency on the
\* grid side. Charging (actual > 0): actual*dt*eta_c <= (1 - soc)*capacity and
\* soc rises by exactly actual*dt*eta_c/capacity. Discharging (actual < 0):
\* |actual|*dt/eta_d <= soc*capacity and soc falls by exactly
\* |actual|*dt/(eta_d*capacity). When neither the rate limit nor the energy
\* limit binds, the actual magnitude is the commanded magnitude.
C6_EnergyLimit ==
    HarnessCalled =>
        LET a == harness.actual_kw
            sp == harness.setpoint_kw
            s0 == harness.soc_before
            dt == Battery_dt_hours(battery)
            cap == battery.capacity_kwh
            room == Mul(Sub(One, s0), cap)
            avail == Mul(s0, cap)
            stored(p) == Mul(Mul(p, dt), battery.eta_c)
            drawn(p) == Div(Mul(fabs(p), dt), battery.eta_d)
            rate_free == Le(Neg(battery.max_discharge_kw), sp) /\ Le(sp, battery.max_charge_kw)
            energy_free == IF Gt(sp, Zero) THEN Le(stored(sp), room)
                           ELSE Le(drawn(sp), avail)
        IN  /\ Gt(a, Zero) =>
                /\ Le(stored(a), room)
                /\ battery.soc = Add(s0, Div(stored(a), cap))
            /\ Lt(a, Zero) =>
                /\ Le(drawn(a), avail)
                /\ battery.soc = Sub(s0, Div(drawn(a), cap))
            /\ (rate_free /\ energy_free) => fabs(a) = fabs(sp)

-----------------------------------------------------------------------------
(* Properties of the controllers and of the engine step                    *)

\* the battery feasibility window as the specification defines it
WindowLow(net, st) ==
    fmax(Neg(st.battery_max_discharge_kw), Sub(Neg(st.max_export_kw), net))
WindowHigh(net, st) ==
    fmin(st.battery_max_charge_kw, Sub(st.max_import_kw, net))
NetWithoutBattery(solar_kw, base_demand_kw, ev_cap_kw) ==
    Add(Add(base_demand_kw, solar_kw), ev_cap_kw)

ProbeDone == probe.mode \in {"naive", "greedy"}
ProbeNet ==
    NetWithoutBattery(probe.input.solar_kw, probe.dispatch.base_demand_kw,
                      probe.dispatch.ev_cap_kw)

Recorded == results.len > 0
Last == results.last[1]
\* the StepState of the step that produced the last record
LastState ==
    make_state(Last.battery_soc, battery.max_charge_kw, battery.max_discharge_kw,
               feeder.max_import_kw, feeder.max_export_kw)
LastNet == NetWithoutBattery(Last.solar_kw, Last.base_kw_after_dr, Last.ev_cap_kw)

\* C1: in every StepResult feeder_kw is the plain sum base_kw_after_dr +
\* ev_actual_kw + solar_kw + battery_actual_kw of the same record.
C1_FeederBalance ==
    Recorded =>
        Last.feeder_kw = Add(Add(Add(Last.base_kw_after_dr, Last.ev_actual_kw),
                                 Last.solar_kw), Last.battery_actual_kw)

\* a recorded step in which the battery, the solar array and the EV all moved
\* power
C1_Witness ==
    /\ Recorded
    /\ Last.battery_actual_kw # Zero
    /\ Last.solar_kw # Zero
    /\ Last.ev_actual_kw # Zero

\* C7: within a step the devices are read, then the controller dispatches,
\* then the EV setpoint is applied, then the battery setpoint, then the balance
\* is computed; the state of charge handed to the controller is the one from
\* before either setpoint is applied, which is the battery_soc recorded by the
\* previous step.
C7_StepOrder ==
    /\ sim.pc \in {"dispatch", "apply_ev", "apply_battery", "balance"} =>
        /\ sim.input # NoStep /\ sim.state # NoStep
        /\ Recorded => sim.state.battery_soc = Last.battery_soc
    /\ sim.pc = "dispatch" =>
        /\ sim.dispatch = NoStep
        /\ sim.ev_actual_kw = None /\ sim.battery_actual_kw = None
        /\ sim.state.battery_soc = battery.soc
    /\ sim.pc = "apply_ev" =>
        /\ sim.dispatch # NoStep
        /\ sim.ev_actual_kw = None /\ sim.battery_actual_kw = None
        /\ sim.state.battery_soc = battery.soc
    /\ sim.pc = "apply_battery" =>
        /\ sim.dispatch # NoStep
        /\ sim.ev_actual_kw # None /\ sim.battery_actual_kw = None
        /\ sim.state.battery_soc = battery.soc
    /\ sim.pc = "balance" =>
        /\ sim.dispatch # NoStep
        /\ sim.ev_actual_kw # None /\ sim.battery_actual_kw # None

\* a later step of a run, about to apply a non-zero battery setpoint after the
\* EV has drawn power, the previous step having moved the state of charge
C7_Witness ==
    /\ sim.pc = "apply_battery"
    /\ Recorded
    /\ Last.battery_actual_kw # Zero
    /\ Gt(sim.ev_actual_kw[1], Zero)
    /\ sim.dispatch.battery_setpoint_kw # Zero

\* C8: for both controllers, whenever the feasibility window is non-empty the
\* battery setpoint lies in [low, high], hence within the battery's rate limits
\* and, added to the net load without battery, within the feeder limits.
C8_SetpointInWindow ==
    ProbeDone =>
        LET st == probe.state
            net == ProbeNet
            low == WindowLow(net, st)
            high == WindowHigh(net, st)
            sp == probe.dispatch.battery_setpoint_kw
        IN  Le(low, high) =>
                /\ Le(low, sp) /\ Le(sp, high)
                /\ Le(Neg(st.battery_max_discharge_kw), sp)
                /\ Le(sp, st.battery_max_charge_kw)
                /\ Le(Neg(st.max_export_kw), Add(net, sp))
                /\ Le(Add(net, sp), st.max_import_kw)

\* the greedy controller held at the upper bound by the import limit, not by
\* the battery's charge limit
C8_Witness ==
    /\ probe.mode = "greedy"
    /\ Le(WindowLow(ProbeNet, probe.state), WindowHigh(ProbeNet, probe.state))
    /\ probe.dispatch.battery_setpoint_kw = WindowHigh(ProbeNet, probe.state)
    /\ Lt(WindowHigh(ProbeNet, probe.state), probe.state.battery_max_charge_kw)

\* C9: when the feasibility window is empty the naive controller commits the
\* battery to the extreme that reduces the violation (-max_discharge_kw when
\* the net load without battery is above the import limit, +max_charge_kw when
\* it is below the export limit), and the engine records such a step with
\* within_feeder_limits = false.
C9_InfeasibleExtreme ==
    /\ probe.mode = "naive" =>
        LET st == probe.state
            net == ProbeNet
            sp == probe.dispatch.battery_setpoint_kw
        IN  Gt(WindowLow(net, st), WindowHigh(net, st)) =>
                /\ Gt(net, st.max_import_kw) => sp = Neg(st.battery_max_discharge_kw)
                /\ Lt(net, Neg(st.max_export_kw)) => sp = st.battery_max_charge_kw
                /\ Gt(net, st.max_import_kw) \/ Lt(net, Neg(st.max_export_kw))
    /\ Recorded =>
        LET st == LastState
            net == LastNet
            sp == Last.battery_setpoint_kw
        IN  Gt(WindowLow(net, st), WindowHigh(net, st)) =>
                /\ ~Last.within_feeder_limits
                /\ controller.kind = "naive" =>
                    /\ Gt(net, st.max_import_kw) => sp = Neg(st.battery_max_discharge_kw)
                    /\ Lt(net, Neg(st.max_export_kw)) => sp = st.battery_max_charge_kw

\* an engine step of the naive controller whose net load alone is beyond the
\* import limit plus the full discharge rate
C9_Witness ==
    /\ Recorded
    /\ controller.kind = "naive"
    /\ Gt(WindowLow(LastNet, LastState), WindowHigh(LastNet, LastState))
    /\ Last.battery_setpoint_kw = Neg(battery.max_discharge_kw)
    /\ ~Last.within_feeder_limits

\* C10: with a non-empty window, the naive controller tracks the clamped
\* target exactly when desired = clamp(target, -max_export, max_import) -
\* net_without_battery lies in the window (the setpoint is negative when the
\* load is above the clamped target and positive when it is below); otherwise
\* the setpoint is the window bound nearest to desired.
C10_NaiveTracking ==
    probe.mode = "naive" =>
        LET st == probe.state
            net == ProbeNet
            low == WindowLow(net, st)
            high == WindowHigh(net, st)
            sp == probe.dispatch.battery_setpoint_kw
            ctarget == clamp(probe.input.target_kw, Neg(st.max_export_kw), st.max_import_kw)
            desired == Sub(ctarget, net)
        IN  Le(low, high) =>
                /\ (Le(low, desired) /\ Le(desired, high)) =>
                    /\ sp = desired
                    /\ Add(net, sp) = ctarget
                    /\ Gt(net, ctarget) => Lt(sp, Zero)
                    /\ Lt(net, ctarget) => Gt(sp, Zero)
                /\ Lt(desired, low) => sp = low
                /\ Gt(desired, high) => sp = high

\* load above the target with room in the window: the battery is told to
\* discharge by exactly the difference
C10_Witness ==
    /\ probe.mode = "naive"
    /\ LET st == probe.state
           net == ProbeNet
           ctarget == clamp(probe.input.target_kw, Neg(st.max_export_kw), st.max_import_kw)
           desired == Sub(ctarget, net)
       IN  /\ Lt(WindowLow(net, st), desired) /\ Lt(desired, WindowHigh(net, st))
           /\ Lt(desired, Zero)
           /\ probe.dispatch.battery_setpoint_kw = desired

-----------------------------------------------------------------------------
(* Demand response and EV cap                                              *)

\* the demand-response contract on one dispatch
DrContract(base_raw, ev_requested, dr_requested, base_demand, ev_after_dr, dr_achieved) ==
    /\ dr_achieved = fmin(fmax(Zero, dr_requested), Add(ev_requested, base_raw))
    /\ Lt(base_demand, base_raw) => ev_after_dr = Zero
    /\ Add(Add(base_demand, ev_after_dr), dr_achieved) = Add(base_raw, ev_requested)
    /\ Ge(base_demand, Zero) /\ Ge(ev_after_dr, Zero)
    /\ Le(Zero, dr_achieved) /\ Le(dr_achieved, dr_requested)
    /\ Le(dr_achieved, Add(base_raw, ev_requested))

\* C11: demand response sheds the EV first and baseload only once the EV is
\* at zero; dr_achieved = min(max(0, dr_requested), ev_requested + base_raw);
\* base_demand + ev_after_dr + dr_achieved = base_raw + ev_requested with both
\* loads non-negative; so 0 <= dr_achieved <= dr_requested and dr_achieved <=
\* base_raw + ev_requested, in every dispatch and every recorded step.
C11_DemandResponse ==
    /\ ProbeDone =>
        DrContract(probe.input.base_demand_raw_kw, probe.input.ev_requested_kw,
                   probe.input.dr_requested_kw, probe.dispatch.base_demand_kw,
                   probe.dispatch.ev_after_dr_kw, probe.dispatch.dr_achieved_kw)
    /\ Recorded =>
        DrContract(Last.base_kw_raw, Last.ev_requested_kw, Last.dr_requested_kw,
                   Last.base_kw_after_dr, Last.ev_after_dr_kw, Last.dr_achieved_kw)

\* an engine step in which the request exceeds the EV load: the EV is shed to
\* zero and the rest comes off the baseload
C11_Witness ==
    /\ Recorded
    /\ Gt(Last.dr_requested_kw, Zero)
    /\ Gt(Last.ev_requested_kw, Zero)
    /\ Last.ev_after_dr_kw = Zero
    /\ Gt(Last.base_kw_after_dr, Zero)
    /\ Lt(Last.base_kw_after_dr, Last.base_kw_raw)

\* import with the battery discharging at its limit, for a flexible load ev_kw
ImportAtFullDischarge(solar_kw, base_demand_kw, ev_kw, st) ==
    Sub(Add(Add(base_demand_kw, solar_kw), ev_kw), st.battery_max_discharge_kw)

\* the EV-cap contract on one dispatch
EvCapContract(solar_kw, base_demand_kw, ev_after_dr_kw, ev_cap_kw, st) ==
    /\ Le(Zero, ev_cap_kw) /\ Le(ev_cap_kw, ev_after_dr_kw)
    /\ Le(ImportAtFullDischarge(solar_kw, base_demand_kw, ev_after_dr_kw, st), st.max_import_kw)
        => ev_cap_kw = ev_after_dr_kw
    /\ Le(ImportAtFullDischarge(solar_kw, base_demand_kw, Zero, st), st.max_import_kw)
        => /\ Le(ImportAtFullDischarge(solar_kw, base_demand_kw, ev_cap_kw, st),
                 st.max_import_kw)
           /\ Sub(ev_after_dr_kw, ev_cap_kw)
                = fmax(Sub(ImportAtFullDischarge(solar_kw, base_demand_kw, ev_after_dr_kw, st),
                           st.max_import_kw), Zero)

\* C12: 0 <= ev_cap <= ev_after_dr; the cap equals ev_after_dr when base +
\* solar + ev_after_dr - max_discharge <= max_import; and when base + solar -
\* max_discharge <= max_import the capped load keeps base + solar + ev_cap -
\* max_discharge <= max_import, shedding exactly the excess from the EV.
C12_EvCapFeasible ==
    /\ ProbeDone =>
        EvCapContract(probe.input.solar_kw, probe.dispatch.base_demand_kw,
                      probe.dispatch.ev_after_dr_kw, probe.dispatch.ev_cap_kw, probe.state)
    /\ Recorded =>
        EvCapContract(Last.solar_kw, Last.base_kw_after_dr, Last.ev_after_dr_kw,
                      Last.ev_cap_kw, LastState)

\* a dispatch in which part of the EV load, and only part, has to be shed
C12_Witness ==
    /\ ProbeDone
    /\ Lt(Zero, probe.dispatch.ev_cap_kw)
    /\ Lt(probe.dispatch.ev_cap_kw, probe.dispatch.ev_after_dr_kw)
    /\ ImportAtFullDischarge(probe.input.solar_kw, probe.dispatch.base_demand_kw,
                             probe.dispatch.ev_cap_kw, probe.state)
         = probe.state.max_import_kw

-----------------------------------------------------------------------------
(* EV charger                                                              *)

\* C13: in every engine step 0 <= ev_actual_kw <= min(ev_cap_kw, EV
\* max_charge_kw), and ev_actual_kw <= ev_requested_kw of the same step.
C13_EvActualBounds ==
    Recorded =>
        /\ Le(Zero, Last.ev_actual_kw)
        /\ Le(Last.ev_actual_kw, fmin(Last.ev_cap_kw, ev.max_charge_kw))
        /\ Le(Last.ev_actual_kw, Last.ev_requested_kw)

\* a step in which the charger's own rating is the binding limit
C13_Witness ==
    /\ Recorded
    /\ Last.ev_actual_kw = ev.max_charge_kw
    /\ Lt(Last.ev_actual_kw, Last.ev_cap_kw)
    /\ Lt(Last.ev_actual_kw, Last.ev_requested_kw)

\* the session of the day being driven, and the steps of that day already served
EvSession == ev.session[1]
EvStepsServed == harness.t - ev.sampled_day[1] * ev.steps_per_day
EvDriven == harness.pc = "ev" /\ ev.session # None

\* C14: a sampled session (its energy never exceeds max_charge_kw * dt * dwell)
\* served by one power_kw call per step with a cap that never binds has
\* delivered exactly its demand once the deadline step is reached, with
\* remaining_kwh = 0 there; remaining_kwh is never negative and never
\* increases while the session lasts.
C14_FeasibleSessionFinishes ==
    /\ [](EvDriven =>
            /\ Le(EvSession.remaining_kwh, Zero) => EvSession.remaining_kwh = Zero
            /\ Le(harness.demand_kwh,
                  Mul(Mul(ev.max_charge_kw, ev.dt_hours),
                      Q(EvSession.deadline_step - EvSession.arrival_step)))
            /\ ~harness.cap_bound =>
                 /\ Add(harness.total_kwh, EvSession.remaining_kwh) = harness.demand_kwh
                 /\ EvStepsServed >= EvSession.deadline_step =>
                      /\ EvSession.remaining_kwh = Zero
                      /\ harness.total_kwh = harness.demand_kwh)
    /\ [][(EvDriven /\ ev'.sampled_day = ev.sampled_day) =>
             Le(ev'.session[1].remaining_kwh, EvSession.remaining_kwh)]_vars

\* a two-step session with energy to deliver, served to its deadline
C14_Witness ==
    /\ EvDriven
    /\ ~harness.cap_bound
    /\ EvSession.deadline_step - EvSession.arrival_step = 2
    /\ EvStepsServed = EvSession.deadline_step
    /\ Gt(harness.demand_kwh, Zero)
    /\ harness.total_kwh = harness.demand_kwh
    /\ EvSession.remaining_kwh = Zero

\* the day index of the engine's current step
SimDay == sim.t \div config.steps_per_day
SimDayStep == sim.t % config.steps_per_day

\* C15: in an engine run the charger samples exactly one session per day
\* index, in the requested_power_kw call of the day's first step; every other
\* EV call of the day, requested_power_kw or power_kw, leaves arrival and
\* deadline alone and never raises remaining_kwh.
C15_OneSessionPerDay ==
    /\ [](sim.pc \in {"read", "dispatch", "apply_ev", "apply_battery", "balance"} =>
            ev.sampled_day =
                IF sim.pc = "read" /\ SimDayStep = 0
                THEN (IF sim.t = 0 THEN None ELSE Some(SimDay - 1))
                ELSE Some(SimDay))
    /\ [][\/ ev' = ev
          \/ /\ ev'.sampled_day # ev.sampled_day
             /\ sim.pc = "read" /\ SimDayStep = 0
             /\ ev'.sampled_day = Some(SimDay)
          \/ /\ ev'.sampled_day = ev.sampled_day
             /\ sim.pc = "apply_ev"
             /\ ev'.session[1].arrival_step = ev.session[1].arrival_step
             /\ ev'.session[1].deadline_step = ev.session[1].deadline_step
             /\ Lt(ev'.session[1].remaining_kwh, ev.session[1].remaining_kwh)]_vars

\* the last step of the second day, whose session has been charged in full
C15_Witness ==
    /\ sim.pc = "balance"
    /\ SimDay = 1 /\ SimDayStep = config.steps_per_day - 1
    /\ ev.sampled_day = Some(1)
    /\ ev.session[1].remaining_kwh = Zero
    /\ Gt(sim.ev_actual_kw[1], Zero)

\* step day_t of the day lies outside the session's window
OutsideSession(day_t) ==
    day_t < EvSession.arrival_step \/ day_t >= EvSession.deadline_step

\* the shape of the sampled session, for a least dwell of dwell_least steps,
\* and no request and no draw outside its window
SessionContract(dwell_least) ==
    EvDriven =>
        /\ dwell_least <= EvSession.deadline_step - EvSession.arrival_step
        /\ EvSession.deadline_step - EvSession.arrival_step
             <= IMin(ev.dwell_steps_max, ev.steps_per_day)
        /\ 0 <= EvSession.arrival_step
        /\ EvSession.arrival_step
             <= ev.steps_per_day - (EvSession.deadline_step - EvSession.arrival_step)
        /\ EvSession.deadline_step <= ev.steps_per_day
        /\ Le(Zero, EvSession.remaining_kwh)
        /\ Le(EvSession.remaining_kwh,
              Mul(Mul(ev.max_charge_kw, ev.dt_hours),
                  Q(EvSession.deadline_step - EvSession.arrival_step)))
        /\ (harness.requested_kw # None /\ OutsideSession(harness.t % ev.steps_per_day))
             => harness.requested_kw = Some(Zero)
        /\ (/\ harness.actual_kw # None
            /\ ev.sampled_day = Some((harness.t - 1) \div ev.steps_per_day)
            /\ OutsideSession((harness.t - 1) % ev.steps_per_day))
             => harness.actual_kw = Some(Zero)

\* C16 as stated: every sampled session has dwell_steps_min <= dwell <=
\* min(dwell_steps_max, steps_per_day), 0 <= arrival <= steps_per_day - dwell,
\* deadline = arrival + dwell <= steps_per_day, 0 <= remaining_kwh <=
\* max_charge_kw * dt_hours * dwell, and the EV requests and draws 0 kW
\* outside [arrival, deadline).
C16_SessionBounds_AsStated == SessionContract(ev.dwell_steps_min)

\* C16 (amended): the same with the least dwell clamped to the day,
\* min(dwell_steps_min, steps_per_day) <= dwell.
C16_SessionBounds == SessionContract(IMin(ev.dwell_steps_min, ev.steps_per_day))

\* a charger whose least dwell exceeds the day, connected for the whole day
\* and charging
C16_Witness ==
    /\ EvDriven
    /\ ev.dwell_steps_min > ev.steps_per_day
    /\ EvSession.arrival_step = 0
    /\ EvSession.deadline_step = ev.steps_per_day
    /\ harness.actual_kw # None
    /\ Gt(harness.actual_kw[1], Zero)

-----------------------------------------------------------------------------
(* Greedy against naive                                                    *)

\* what the other controller returns for the probed input and state
ProbeAsNaive == NaiveRtController_dispatch(probe.input, probe.state)
ProbeAsGreedy == GreedyController_dispatch(controller, probe.input, probe.state)

SameLoadDispatch(a, b) ==
    /\ a.base_demand_kw = b.base_demand_kw
    /\ a.ev_after_dr_kw = b.ev_after_dr_kw
    /\ a.ev_cap_kw = b.ev_cap_kw
    /\ a.dr_achieved_kw = b.dr_achieved_kw

\* C17: for every input and state the greedy and the naive dispatch agree on
\* base_demand_kw, ev_after_dr_kw, ev_cap_kw and dr_achieved_kw; only
\* battery_setpoint_kw may differ.
C17_SameLoadDispatch ==
    /\ probe.mode = "greedy" => SameLoadDispatch(probe.dispatch, ProbeAsNaive)
    /\ probe.mode = "naive" => SameLoadDispatch(probe.dispatch, ProbeAsGreedy)

\* a greedy dispatch under demand response that reaches into the baseload and
\* whose battery setpoint is not the naive one
C17_Witness ==
    /\ probe.mode = "greedy"
    /\ Gt(probe.dispatch.dr_achieved_kw, Zero)
    /\ Lt(probe.dispatch.base_demand_kw, probe.input.base_demand_raw_kw)
    /\ probe.dispatch.battery_setpoint_kw # ProbeAsNaive.battery_setpoint_kw

\* the tracking action both controllers start from, for the probed dispatch
ProbeTracking ==
    Sub(clamp(probe.input.target_kw, Neg(probe.state.max_export_kw),
              probe.state.max_import_kw), ProbeNet)

\* the projection both controllers apply to their desired setpoint
ProbeProject(desired_kw) ==
    IF Le(WindowLow(ProbeNet, probe.state), WindowHigh(ProbeNet, probe.state))
    THEN clamp(desired_kw, WindowLow(ProbeNet, probe.state),
               WindowHigh(ProbeNet, probe.state))
    ELSE clamp(desired_kw, Neg(probe.state.battery_max_discharge_kw),
               probe.state.battery_max_charge_kw)

\* index of the lookahead entry for the step after the probed one
ProbeNextIdx ==
    IMin((probe.input.timestep % controller.steps_per_day) + 1, controller.steps_per_day)

\* stored energy this step's charge would add, plus what later steps will ask
ProbeChargeDemand ==
    Add(Mul(Mul(ProbeTracking, controller.dt_hours), controller.eta_c),
        controller.remaining_charge_kwh[ProbeNextIdx])
ProbeRoom == Mul(Sub(One, probe.state.battery_soc), controller.capacity_kwh)

\* energy this step's discharge would draw, plus what later steps will ask
ProbeDischargeDemand ==
    Add(Div(Mul(Neg(ProbeTracking), controller.dt_hours), controller.eta_d),
        controller.remaining_discharge_kwh[ProbeNextIdx])
ProbeAvailable == Mul(probe.state.battery_soc, controller.capacity_kwh)

\* C18: the greedy setpoint is the naive setpoint whenever this step's energy
\* demand plus the future demand from the next step of the day fits the room
\* (1 - soc) * capacity (tracking > 0) or the stored energy soc * capacity
\* (tracking < 0); otherwise tracking is scaled by room / demand (resp.
\* available / demand) before the projection, and the greedy setpoint is <= the
\* naive one when tracking > 0 and >= it when tracking < 0.
C18_GreedyShrinksNaive ==
    probe.mode = "greedy" =>
        \E greedy \in {probe.dispatch.battery_setpoint_kw},
           naive \in {ProbeAsNaive.battery_setpoint_kw},
           tracking \in {ProbeTracking} :
            /\ naive = ProbeProject(tracking)
            /\ tracking = Zero => greedy = naive
            /\ Gt(tracking, Zero) =>
                 IF Le(ProbeChargeDemand, ProbeRoom)
                 THEN greedy = naive
                 ELSE /\ greedy = ProbeProject(Mul(tracking,
                                                   Div(ProbeRoom, ProbeChargeDemand)))
                      /\ Le(greedy, naive)
            /\ Lt(tracking, Zero) =>
                 IF Le(ProbeDischargeDemand, ProbeAvailable)
                 THEN greedy = naive
                 ELSE /\ greedy = ProbeProject(Mul(tracking,
                                                   Div(ProbeAvailable, ProbeDischargeDemand)))
                      /\ Ge(greedy, naive)

\* a charge scaled down for lack of room: the greedy setpoint stays strictly
\* below the naive one
C18_Witness ==
    /\ probe.mode = "greedy"
    /\ Gt(ProbeTracking, Zero)
    /\ Gt(ProbeChargeDemand, ProbeRoom)
    /\ Gt(probe.dispatch.battery_setpoint_kw, Zero)
    /\ Lt(probe.dispatch.battery_setpoint_kw, ProbeAsNaive.battery_setpoint_kw)

-----------------------------------------------------------------------------
(* Solar sign                                                              *)

\* the recorded step lies between sunrise (inclusive) and sunset (exclusive)
LastInDaylight ==
    /\ pv.sunrise_idx <= Last.timestep % config.steps_per_day
    /\ Last.timestep % config.steps_per_day < pv.sunset_idx

\* C20: in every engine step solar_kw <= 0; it is strictly negative at every
\* step with sunrise_idx <= (t mod steps_per_day) < sunset_idx when kw_peak > 0,
\* and 0 at every other step.
C20_SolarSign ==
    Recorded =>
        /\ Le(Last.solar_kw, Zero)
        /\ (LastInDaylight /\ Gt(pv.kw_peak, Zero)) => Lt(Last.solar_kw, Zero)
        /\ ~LastInDaylight => Last.solar_kw = Zero

-----------------------------------------------------------------------------
(* AR(1) solar model                                                       *)

Ar1Called == harness.pc = "ar1" /\ harness.kw # None
\* daylight fraction of the step the last call was made for
Ar1Frac ==
    daylight_frac(harness.t - 1, harness.pv.steps_per_day, harness.pv.sunrise_idx,
                  harness.pv.sunset_idx)

\* C21: the AR(1) model starts from multiplier 1.0 and advances it exactly
\* once per power_kw call, night or day: m' = clamp(alpha * m + (1 - alpha) *
\* epsilon, 0.2, 1.2); after every call 0.2 <= multiplier <= 1.2; the output is
\* 0 on night steps and -(kw_peak * daylight_frac(t) * multiplier) on daylight
\* steps.
C21_Ar1Multiplier ==
    /\ (harness.pc = "ar1" /\ harness.t = 0) => harness.pv.multiplier = One
    /\ Ar1Called =>
        /\ harness.pv.multiplier =
             clamp(Add(Mul(harness.pv.alpha, harness.before[1]),
                       Mul(Sub(One, harness.pv.alpha),
                           gaussian_noise(harness.pv.cloud_noise_std, harness.z0[1]))),
                   Frac(1, 5), Frac(6, 5))
        /\ Le(Frac(1, 5), harness.pv.multiplier)
        /\ Le(harness.pv.multiplier, Frac(6, 5))
        /\ harness.kw[1] =
             IF Ar1Frac = Zero THEN Zero
             ELSE Neg(Mul(Mul(harness.pv.kw_peak, Ar1Frac), harness.pv.multiplier))

\* a night call that moved the multiplier
C21_Witness ==
    /\ Ar1Called
    /\ (harness.t - 1) % harness.pv.steps_per_day < harness.pv.sunrise_idx
    /\ harness.kw = Some(Zero)
    /\ harness.pv.multiplier # harness.before[1]
    /\ Lt(harness.pv.multiplier, Frac(6, 5))
    /\ Gt(harness.pv.multiplier, Frac(1, 5))

-----------------------------------------------------------------------------
(* Feeder limits, run length, tracking error                               *)

\* C22: within_feeder_limits of a step is true exactly when -max_export_kw <=
\* feeder_kw <= max_import_kw, both ends included, for that step's feeder_kw
\* alone: the accumulator is reset before the step's flow is added, so it
\* holds this step's feeder_kw and nothing of earlier steps.
C22_WithinLimits ==
    Recorded =>
        /\ feeder.net_kw = Last.feeder_kw
        /\ Last.within_feeder_limits
             <=> (/\ Le(Neg(feeder.max_export_kw), Last.feeder_kw)
                  /\ Le(Last.feeder_kw, feeder.max_import_kw))

\* a later step that sits exactly on the import limit and is counted as within
C22_Witness ==
    /\ Recorded
    /\ results.len >= 2
    /\ Last.feeder_kw = feeder.max_import_kw
    /\ Last.within_feeder_limits

\* what the next statements of Engine::step need in order not to panic: the
\* forecast and target indices in range, a non-empty sampling range for the
\* EV, the lookahead index in range, and ordered bounds for every clamp
StepCannotPanic ==
    /\ sim.pc = "read" =>
        /\ sim.t % config.steps_per_day \in DOMAIN load_forecast
        /\ sim.t % config.steps_per_day \in DOMAIN target_schedule
        /\ EvDraws(ev, DeviceContext_new(sim.t)) # {}
        /\ \A d \in EvDraws(ev, DeviceContext_new(sim.t)) :
              d.dwell <= ev.steps_per_day /\ d.arrival + d.dwell <= ev.steps_per_day
    /\ sim.pc = "dispatch" =>
        /\ Le(Neg(sim.state.max_export_kw), sim.state.max_import_kw)
        /\ Le(Neg(sim.state.battery_max_discharge_kw), sim.state.battery_max_charge_kw)
        /\ controller.kind = "greedy" =>
             IMin((sim.input.timestep % controller.steps_per_day) + 1,
                  controller.steps_per_day) \in DOMAIN controller.remaining_charge_kwh
    /\ sim.pc = "apply_ev" =>
        (ev.session # None =>
            ev.session[1].arrival_step <= ev.session[1].deadline_step)

\* C23: Engine::run never aborts and terminates: no step meets a panic
\* condition, every run reaches its end, at the end the vector holds
\* steps_per_day * days records, and the records are pushed with timestep
\* 0, 1, 2, ... in that order.
C23_RunCompletes ==
    /\ []StepCannotPanic
    /\ <>(sim.pc = "done")
    /\ [](sim.pc = "done" => results.len = config.steps_per_day * config.days)
    /\ [][results' # results =>
             /\ results'.len = results.len + 1
             /\ results'.last[1].timestep = results.len]_vars

\* the end of a run of more than one day, the last record in place
C23_Witness ==
    /\ sim.pc = "done"
    /\ config.days > 1
    /\ results.len = config.steps_per_day * config.days
    /\ Last.timestep = config.steps_per_day * config.days - 1

RECURSIVE SumOfCosts(_, _, _)
SumOfCosts(rs, dt_hours, price) ==
    IF rs = <<>> THEN Zero
    ELSE Add(Mul(Mul(fabs(Sub(rs[1].feeder_kw, rs[1].target_kw)), dt_hours), price),
             SumOfCosts(Tail(rs), dt_hours, price))

-----------------------------------------------------------------------------
(* Configuration                                                           *)

Named(field) == \E i \in DOMAIN harness.errors : harness.errors[i] = field

\* C25: each listed invalid value makes validate report the field it is in,
\* and a configuration validate reports nothing about builds without a
\* constructor assertion failing.
C25_ValidateGuardsConstructors ==
    harness.pc \in {"validated", "built"} =>
      \E c \in {harness.scenario} :
        /\ Le(c.battery.capacity_kwh, Zero) => Named("battery.capacity_kwh")
        /\ ~(Le(Zero, c.battery.initial_soc) /\ Le(c.battery.initial_soc, One))
              => Named("battery.initial_soc")
        /\ ~(Gt(c.battery.eta_charge, Zero) /\ Le(c.battery.eta_charge, One))
              => Named("battery.eta_charge")
        /\ ~(Gt(c.battery.eta_discharge, Zero) /\ Le(c.battery.eta_discharge, One))
              => Named("battery.eta_discharge")
        /\ c.solar.sunrise_idx >= c.solar.sunset_idx => Named("solar.sunrise_idx")
        /\ c.solar.sunset_idx > c.simulation.steps_per_day => Named("solar.sunset_idx")
        /\ c.ev.dwell_steps_min > c.ev.dwell_steps_max => Named("ev.dwell_steps_min")
        /\ c.dr_event.start_step >= c.dr_event.end_step => Named("dr_event.start_step")
        /\ c.simulation.controller \notin {"naive", "greedy"} => Named("simulation.controller")
        /\ c.solar.model \notin {"simple", "ar1"} => Named("solar.model")
        /\ harness.pc = "built" => ~harness.panicked

-----------------------------------------------------------------------------
(* Telemetry HTTP interface                                                *)

\* the pairs of the request's query with the given key
PairsOf(key) == {i \in DOMAIN harness.query : harness.query[i][1] = key}

\* a from or to value that is not a non-negative integer
Malformed ==
    \E i \in PairsOf("from") \cup PairsOf("to") : parse_usize_param(harness.query[i][2]) = None

\* the bound a key sets: none if absent, else the one given last
Bound(key) ==
    IF PairsOf(key) = {} THEN None
    ELSE parse_usize_param(harness.query[CHOOSE i \in PairsOf(key) :
                                           \A j \in PairsOf(key) : j <= i][2])

FromAboveTo ==
    /\ ~Malformed
    /\ Bound("from") # None /\ Bound("to") # None
    /\ Bound("from")[1] > Bound("to")[1]

\* the records with from <= timestep <= to, in step order
InRange ==
    SelectSeq(harness.telemetry, LAMBDA row :
        /\ (Bound("from") # None => Bound("from")[1] <= row.timestep)
        /\ (Bound("to") # None => row.timestep <= Bound("to")[1]))

Answer == harness.response[1]

ClassifiedOutsideTelemetry ==
    /\ harness.method # "GET" => Answer.status = 405
    /\ (harness.method = "GET" /\ harness.path \notin {"/state", "/telemetry"})
          => Answer.status = 404

\* C26 as stated: not GET is 405, GET of an unknown path is 404, GET
\* /telemetry with from > to is 400, and every other GET /telemetry is 200
\* with exactly the records from <= timestep <= to in step order.
C26_Classified_AsStated ==
    harness.pc = "answered" =>
        /\ ClassifiedOutsideTelemetry
        /\ (harness.method = "GET" /\ harness.path = "/telemetry") =>
              IF FromAboveTo THEN Answer.status = 400
              ELSE Answer.status = 200 /\ Answer.body = InRange

\* C26: not GET is 405, GET of an unknown path is 404, GET /telemetry with a
\* from or to value that is not a non-negative integer, or with from > to,
\* is 400, and every other GET /telemetry is 200 with exactly the records
\* from <= timestep <= to in step order.
C26_Classified ==
    harness.pc = "answered" =>
        /\ ClassifiedOutsideTelemetry
        /\ (harness.method = "GET" /\ harness.path = "/telemetry") =>
              IF Malformed \/ FromAboveTo THEN Answer.status = 400
              ELSE Answer.status = 200 /\ Answer.body = InRange

\* a range with both bounds that keeps some records and drops others at
\* each end
C26_Witness ==
    /\ harness.pc = "answered"
    /\ harness.method = "GET" /\ harness.path = "/telemetry"
    /\ Bound("from") = Some(1) /\ Bound("to") = Some(3)
    /\ Answer.status = 200
    /\ Len(Answer.body) = 3
    /\ Answer.body[1].timestep = 1 /\ Answer.body[3].timestep = 3

-----------------------------------------------------------------------------
(* Feasible steps and feeder limits                                        *)

\* C28 as stated: a step whose battery feasibility window is not empty
\* (low <= high) is recorded within the feeder limits, whatever the state of charge and
\* the EV's actual draw.
C28_FeasibleWithinLimits_AsStated ==
    Recorded =>
        (Le(WindowLow(LastNet, LastState), WindowHigh(LastNet, LastState))
            => Last.within_feeder_limits)

\* C28: a step whose battery feasibility window is not empty, whose battery
\* delivers the setpoint and whose EV draws its cap is recorded within the
\* feeder limits.
C28_FeasibleWithinLimits ==
    Recorded =>
        ((/\ Le(WindowLow(LastNet, LastState), WindowHigh(LastNet, LastState))
          /\ Last.battery_actual_kw = Last.battery_setpoint_kw
          /\ Last.ev_actual_kw = Last.ev_cap_kw)
            => Last.within_feeder_limits)

\* a feasible step with the EV at a positive cap and a battery flow that
\* brings the feeder onto its import limit
C28_Witness ==
    /\ Recorded
    /\ Le(WindowLow(LastNet, LastState), WindowHigh(LastNet, LastState))
    /\ Last.battery_actual_kw = Last.battery_setpoint_kw
    /\ Last.battery_setpoint_kw # Zero
    /\ Last.ev_actual_kw = Last.ev_cap_kw
    /\ Gt(Last.ev_cap_kw, Zero)
    /\ Gt(LastNet, feeder.max_import_kw)
    /\ Last.within_feeder_limits

-----------------------------------------------------------------------------
(* Greedy lookahead tables                                                 *)

\* the battery the greedy controller of the state was built for
BuiltFor ==
    CHOOSE b \in {LosslessBattery, LossyBattery} :
        b.capacity_kwh = controller.capacity_kwh /\ b.eta_c = controller.eta_c

Residual(u) ==
    Sub(target_schedule[u],
        Add(load_forecast[u],
            estimate_solar_kw(u, config.steps_per_day, pv.sunrise_idx, pv.sunset_idx,
                              pv.kw_peak)))

ChargeTerm(u) ==
    IF Gt(Residual(u), Zero)
    THEN Mul(Mul(fmin(Residual(u), BuiltFor.max_charge_kw), controller.dt_hours),
             BuiltFor.eta_c)
    ELSE Zero

DischargeTerm(u) ==
    IF Lt(Residual(u), Zero)
    THEN Div(Mul(fmin(Neg(Residual(u)), BuiltFor.max_discharge_kw), controller.dt_hours),
             BuiltFor.eta_d)
    ELSE Zero

\* the sums over u in [t, upto), added from the left
RECURSIVE ChargeSum(_, _)
ChargeSum(t, upto) ==
    IF upto <= t THEN Zero ELSE Add(ChargeSum(t, upto - 1), ChargeTerm(upto - 1))

RECURSIVE DischargeSum(_, _)
DischargeSum(t, upto) ==
    IF upto <= t THEN Zero ELSE Add(DischargeSum(t, upto - 1), DischargeTerm(upto - 1))

\* the timesteps at which the state's greedy controller is being asked
GreedyAsked ==
    (IF probe.mode = "greedy" THEN {probe.input.timestep} ELSE {})
    \cup (IF sim.pc \in {"dispatch", "apply_ev"} THEN {sim.input.timestep} ELSE {})

\* C29: the tables of a greedy controller over a day of S steps have length
\* S + 1, hold at every t in [0, S] the sums over u in [t, S) of the capped
\* charge and discharge energies of the residuals, do not increase in t and
\* end in 0; a dispatch at timestep t reads index (t mod S) + 1 <= S, which
\* is in the tables, and on the last step of a day finds 0 there.
C29_SuffixSums ==
    controller.kind = "greedy" =>
      \E S \in {controller.steps_per_day} :
        /\ S = config.steps_per_day
        /\ DOMAIN controller.remaining_charge_kwh = 0 .. S
        /\ DOMAIN controller.remaining_discharge_kwh = 0 .. S
        /\ \A t \in 0 .. S :
              /\ controller.remaining_charge_kwh[t] = ChargeSum(t, S)
              /\ controller.remaining_discharge_kwh[t] = DischargeSum(t, S)
        /\ \A t \in 0 .. (S - 1) :
              /\ Ge(controller.remaining_charge_kwh[t], controller.remaining_charge_kwh[t + 1])
              /\ Ge(controller.remaining_discharge_kwh[t],
                    controller.remaining_discharge_kwh[t + 1])
        /\ controller.remaining_charge_kwh[S] = Zero
        /\ controller.remaining_discharge_kwh[S] = Zero
        /\ \A t \in GreedyAsked :
              /\ (t % S) + 1 <= S
              /\ (t % S) + 1 \in DOMAIN controller.remaining_charge_kwh
              /\ t % S = S - 1 =>
                    /\ controller.remaining_charge_kwh[(t % S) + 1] = Zero
                    /\ controller.remaining_discharge_kwh[(t % S) + 1] = Zero

\* a greedy dispatch on the last step of the second day, with tables that
\* hold both charge and discharge demand at the start of the day
C29_Witness ==
    /\ controller.kind = "greedy"
    /\ \E t \in GreedyAsked :
          t >= controller.steps_per_day /\ t % controller.steps_per_day = controller.steps_per_day - 1
    /\ Gt(controller.remaining_charge_kwh[0], Zero)
    /\ Gt(controller.remaining_discharge_kwh[0], Zero)
    /\ \E t \in 0 .. (controller.steps_per_day - 1) :
          Gt(controller.remaining_charge_kwh[t], controller.remaining_charge_kwh[t + 1])

-----------------------------------------------------------------------------
(* TUI reset                                                               *)

\* C30: switch_preset with a known preset leaves timestep 0, an empty
\* history, paused false and the preset's name; with an unknown name it
\* leaves every field as it was; after restart, timestep is 0 and the
\* history is empty, however the App was created and however many ticks
\* went before.
C30_ResetReturnsToStart ==
    harness.pc = "tui" =>
        /\ (harness.op[1] = "switch_preset" /\ ScenarioConfig_from_preset(harness.op[2]) # None)
              => /\ harness.app.timestep = 0
                 /\ harness.app.history = <<>>
                 /\ ~harness.app.paused
                 /\ harness.app.preset_name = harness.op[2]
        /\ (harness.op[1] = "switch_preset" /\ ScenarioConfig_from_preset(harness.op[2]) = None)
              => harness.app = harness.before[1]
        /\ harness.op[1] = "restart"
              => harness.app.timestep = 0 /\ harness.app.history = <<>>

====
